---- MODULE Spec2Model ----
(***************************************************************************)
(* go-xsoar: the paginated incident search (Search / SearchPage), the      *)
(* mapping of HTTP responses to typed errors, the iterator helpers         *)
(* (Collect, CollectN, First) and combinators (Take, Filter, Map), the     *)
(* incident operations and the construction of the client.                 *)
(*                                                                         *)
(* The specifications of the module share its variables:                   *)
(*   Spec             one Search traversal driven by a consumer, against a *)
(*                    server that holds srvItems items and serves          *)
(*                    srvPageSize per page                                 *)
(*   SpecConcurrent   two such traversals, interleaved                     *)
(*   SpecSearchChain  one traversal inside a chain of combinators that a   *)
(*                    helper consumes                                      *)
(*   SpecPage         single SearchPage calls with arbitrary page options  *)
(*                    and arbitrary HTTP outcomes                          *)
(*   SpecIter         the iterator helpers applied to arbitrary sequences  *)
(*                    of (item, error) pairs                               *)
(*   SpecChain        the combinators around arbitrary sequences           *)
(*   SpecOps          one incident operation called on a client            *)
(*   SpecNewClient    NewClient called with a list of options              *)
(***************************************************************************)
EXTENDS Integers, Sequences, FiniteSets, TLC

\* ------------------------------------------------------------------------
\* Bounds of the model
\* ------------------------------------------------------------------------

\* largest number of items the server holds
MaxItems == 4

\* largest number of items the server puts in one page
MaxPageLen == 3

\* longest source sequence handed to the iterator helpers
MaxSeqLen == 3

\* largest count n handed to CollectN
MaxCount == 3

\* number of successive SearchPage calls made with one PageOptions value
MaxCalls == 2

\* number of combinators nested around Search
MaxDepth == 2

\* number of request options passed to one operation
MaxRequestOpts == 2

\* number of options passed to NewClient
MaxClientOpts == 3

\* page fetches followed against a server that answers anything
MaxAnyFetches == 3

\* most items in a page of a server that answers anything
MaxAnyLen == 2

\* times one iterator value is ranged over
MaxRuns == 2

\* ------------------------------------------------------------------------
\* Program constants
\* ------------------------------------------------------------------------

defaultPageSize == 100

maxPageSize == 1000

StatusBadRequest == 400

StatusUnauthorized == 401

StatusForbidden == 403

StatusNotFound == 404

StatusTooManyRequests == 429

StatusInternalServerError == 500

\* the nil *Incident pushed with an error pair; incidents are 1, 2, ...
NilItem == 0

\* ------------------------------------------------------------------------
\* Values
\* ------------------------------------------------------------------------

Min(a, b) == IF a <= b THEN a ELSE b

Max(a, b) == IF a >= b THEN a ELSE b

CeilDiv(a, b) == (a + b - 1) \div b

\* the nil error
NoErr == [type |-> "nil", status |-> 0]

\* ctx.Err() of a cancelled context
ErrCanceled == [type |-> "context.Canceled", status |-> 0]

\* Transport.Do failed: "request failed", "reading response body",
\* "response too large"
ErrTransport == [type |-> "transport", status |-> 0]

\* Transport.DoJSON: "unmarshaling response"
ErrUnmarshal == [type |-> "unmarshal", status |-> 0]

ErrEmptyIterator == [type |-> "ErrEmptyIterator", status |-> 0]

\* a nil *IncidentPage
NilPage == [isNil |-> TRUE, Data |-> << >>, Total |-> 0, Offset |-> 0]

\* the zero IncidentPage (var result IncidentPage)
ZeroPage == [isNil |-> FALSE, Data |-> << >>, Total |-> 0, Offset |-> 0]

\* a nil *PageOptions
NilOpts == [isNil |-> TRUE, Offset |-> 0, Limit |-> 0]

PageOptions(o, l) == [isNil |-> FALSE, Offset |-> o, Limit |-> l]

\* ------------------------------------------------------------------------
\* IncidentPage
\* ------------------------------------------------------------------------

HasMoreInclusive(p) == p.Offset + Len(p.Data) <= p.Total

\* IncidentPage.HasMore
HasMore(p) == p.Offset + Len(p.Data) < p.Total

NextOffsetPlusLimit(p) == p.Offset + defaultPageSize

NextOffset(p) == p.Offset + Len(p.Data)

\* ------------------------------------------------------------------------
\* Typed errors
\* ------------------------------------------------------------------------

\* the error types that embed APIError and define As(**APIError)
TypedErrors ==
    {"AuthenticationError", "NotFoundError", "ValidationError",
     "RateLimitError", "ServerError"}

\* errors.As(err, &target) for a target of type *<target>
ErrorsAs(err, target) ==
    \/ err.type = target
    \/ target = "APIError" /\ err.type \in TypedErrors

\* json.Unmarshal(body, &base): a JSON error object overwrites
\* base.StatusCode with its "status" field, any other body leaves it
BaseStatus(statusCode, resp) ==
    IF resp.body = "errjson" THEN resp.bstatus ELSE statusCode

parseErrorForbiddenPlain(statusCode, resp) ==
    LET base == BaseStatus(statusCode, resp) IN
    CASE statusCode = StatusUnauthorized ->
            [type |-> "AuthenticationError", status |-> base]
      [] statusCode = StatusNotFound ->
            [type |-> "NotFoundError", status |-> base]
      [] statusCode = StatusBadRequest ->
            [type |-> "ValidationError", status |-> base]
      [] statusCode = StatusTooManyRequests ->
            [type |-> "RateLimitError", status |-> base]
      [] statusCode >= StatusInternalServerError ->
            [type |-> "ServerError", status |-> base]
      [] OTHER ->
            [type |-> "APIError", status |-> base]

parseError(statusCode, resp) ==
    LET base == BaseStatus(statusCode, resp) IN
    CASE statusCode = StatusUnauthorized \/ statusCode = StatusForbidden ->
            [type |-> "AuthenticationError", status |-> base]
      [] statusCode = StatusNotFound ->
            [type |-> "NotFoundError", status |-> base]
      [] statusCode = StatusBadRequest ->
            [type |-> "ValidationError", status |-> base]
      [] statusCode = StatusTooManyRequests ->
            [type |-> "RateLimitError", status |-> base]
      [] statusCode >= StatusInternalServerError ->
            [type |-> "ServerError", status |-> base]
      [] OTHER ->
            [type |-> "APIError", status |-> base]

\* ------------------------------------------------------------------------
\* Transport and SearchPage
\* ------------------------------------------------------------------------

\* An HTTP outcome of Transport.Do:
\*   fail     the round trip or the body read failed (no response)
\*   status   the HTTP status code
\*   body     "empty", "text" (not JSON), "page" (a JSON IncidentPage),
\*            "errjson" (a JSON error object)
\*   page     the page a "page" body encodes
\*   bstatus  the "status" field an "errjson" body carries
FailedResponse ==
    [fail |-> TRUE, status |-> 0, body |-> "empty", page |-> ZeroPage,
     bstatus |-> 0]

Response(s, b, p, bs) ==
    [fail |-> FALSE, status |-> s, body |-> b, page |-> p, bstatus |-> bs]

\* json.Unmarshal(resp.Body, &result) for result of type IncidentPage:
\* a JSON object decodes (unknown fields are ignored), text does not
Decodes(resp) == resp.body \in {"page", "errjson"}

Decoded(resp) == IF resp.body = "page" THEN resp.page ELSE ZeroPage

\* Transport.DoJSON: [hasResp, err, result]
DoJSON(resp) ==
    IF resp.fail
    THEN [hasResp |-> FALSE, err |-> ErrTransport, result |-> ZeroPage]
    ELSE IF resp.body # "empty" /\ resp.status < 400
         THEN IF Decodes(resp)
              THEN [hasResp |-> TRUE, err |-> NoErr,
                    result |-> Decoded(resp)]
              ELSE [hasResp |-> TRUE, err |-> ErrUnmarshal,
                    result |-> ZeroPage]
         ELSE [hasResp |-> TRUE, err |-> NoErr, result |-> ZeroPage]

NormalizeLimitNoClamp(limit) ==
    IF limit <= 0 THEN defaultPageSize ELSE limit

\* SearchPage, the two clamps applied to page.Limit
NormalizeLimit(limit) ==
    LET l == IF limit <= 0 THEN defaultPageSize ELSE limit IN
    IF l > maxPageSize THEN maxPageSize ELSE l

\* SearchPage, *page when the request body is built: a nil page is replaced
\* by &PageOptions{} and the limit is normalized in place
SearchPageOptions(opts) ==
    LET p == IF opts.isNil THEN PageOptions(0, 0) ELSE opts IN
    [p EXCEPT !.Limit = NormalizeLimit(p.Limit)]

CallerOptionsAfterCopy(opts) == opts

\* the caller's *PageOptions after SearchPage returned: SearchPage writes
\* through the pointer it was given; a nil pointer stays nil
CallerOptionsAfter(opts) ==
    IF opts.isNil THEN opts ELSE SearchPageOptions(opts)

SearchPageResultIgnoreStatus(resp) ==
    LET r == DoJSON(resp) IN
    IF r.err # NoErr
    THEN [page |-> NilPage, err |-> r.err]
    ELSE [page |-> r.result, err |-> NoErr]

\* SearchPage, from the return of DoJSON on: [page, err]
SearchPageResult(resp) ==
    LET r == DoJSON(resp) IN
    IF r.err # NoErr
    THEN [page |-> NilPage, err |-> r.err]
    ELSE IF resp.status >= StatusBadRequest
         THEN [page |-> NilPage, err |-> parseError(resp.status, resp)]
         ELSE [page |-> r.result, err |-> NoErr]

\* ------------------------------------------------------------------------
\* Iterator helpers
\* ------------------------------------------------------------------------

\* A sequence (iter.Seq2[T, error]) is the list of (item, error) pairs it
\* pushes for as long as yield returns true.  A helper returns, besides its
\* Go results, the number of pairs the source pushed before the helper's
\* loop ended ("pulled").

SeqPair(item, err) == [item |-> item, err |-> err]

RECURSIVE CollectLoop(_, _, _)
CollectLoop(seq, i, result) ==
    IF i > Len(seq)
    THEN [items |-> result, err |-> NoErr, pulled |-> Len(seq)]
    ELSE IF seq[i].err # NoErr
         THEN [items |-> result, err |-> seq[i].err, pulled |-> i]
         ELSE CollectLoop(seq, i + 1, Append(result, seq[i].item))

RECURSIVE CollectSkipErrorsLoop(_, _, _, _)
CollectSkipErrorsLoop(seq, i, result, err) ==
    IF i > Len(seq)
    THEN [items |-> result, err |-> err, pulled |-> Len(seq)]
    ELSE IF seq[i].err # NoErr
         THEN CollectSkipErrorsLoop(seq, i + 1, result,
                  IF err = NoErr THEN seq[i].err ELSE err)
         ELSE CollectSkipErrorsLoop(seq, i + 1,
                  Append(result, seq[i].item), err)

CollectSkipErrors(seq) == CollectSkipErrorsLoop(seq, 1, << >>, NoErr)

Collect(seq) == CollectLoop(seq, 1, << >>)

RECURSIVE CollectNLoop(_, _, _, _)
CollectNLoop(seq, n, i, result) ==
    IF i > Len(seq)
    THEN [items |-> result, err |-> NoErr, pulled |-> Len(seq)]
    ELSE IF seq[i].err # NoErr
         THEN [items |-> result, err |-> seq[i].err, pulled |-> i]
         ELSE LET r == Append(result, seq[i].item) IN
              IF Len(r) >= n
              THEN [items |-> r, err |-> NoErr, pulled |-> i]
              ELSE CollectNLoop(seq, n, i + 1, r)

CollectNZeroIsEmpty(seq, n) ==
    IF n = 0
    THEN [items |-> << >>, err |-> NoErr, pulled |-> 0]
    ELSE CollectNLoop(seq, n, 1, << >>)

CollectN(seq, n) == CollectNLoop(seq, n, 1, << >>)

FirstZeroOnEmpty(seq) ==
    IF Len(seq) >= 1
    THEN [item |-> seq[1].item, err |-> seq[1].err, pulled |-> 1]
    ELSE [item |-> NilItem, err |-> NoErr, pulled |-> 0]

\* First: the loop body returns on the first pair; NilItem is "var zero T"
First(seq) ==
    IF Len(seq) >= 1
    THEN [item |-> seq[1].item, err |-> seq[1].err, pulled |-> 1]
    ELSE [item |-> NilItem, err |-> ErrEmptyIterator, pulled |-> 0]

\* no helper has been called
NoHelper ==
    [op |-> "none", items |-> << >>, item |-> NilItem, err |-> NoErr,
     pulled |-> 0]

\* ------------------------------------------------------------------------
\* Iterator combinators
\* ------------------------------------------------------------------------

\* a pair passed to a yield function, with the value yield returned for it
Pair(item, err, ans) == [item |-> item, err |-> err, ans |-> ans]

\* the (item, error) pairs of a push history, without yield's answers
PairsOf(ps) == [i \in 1..Len(ps) |-> SeqPair(ps[i].item, ps[i].err)]

\* A chain is the list of combinators wrapped around a source, the one next
\* to the source first: Take(Map(Filter(seq, p), f), n) is
\* <<FilterStage(p), MapStage(f), TakeStage(n)>>.  Its state is the count
\* variable of every Take and the pairs the final consumer has received.

TakeStage(n) == [kind |-> "Take", n |-> n, f |-> "none"]

FilterStage(pred) == [kind |-> "Filter", n |-> 0, f |-> pred]

MapStage(fn) == [kind |-> "Map", n |-> 0, f |-> fn]

\* the predicates given to Filter
Preds == {"even", "true"}

Pred(pred, v) ==
    CASE pred = "even" -> v % 2 = 0
      [] pred = "true" -> TRUE

\* the functions given to Map
Fns == {"double"}

Apply(fn, v) ==
    CASE fn = "double" -> v * 2

\* the final consumers: the helpers, and a range loop that breaks at the
\* n-th pair it receives (never, when n = 0)
CollectConsumer == [kind |-> "Collect", n |-> 0]

CollectNConsumer(n) == [kind |-> "CollectN", n |-> n]

FirstConsumer == [kind |-> "First", n |-> 0]

RangeConsumer(n) == [kind |-> "range", n |-> n]

NoConsumer == [kind |-> "none", n |-> 0]

\* whether the consumer's loop goes on after the pairs seq, the last of
\* which it has just received
ConsumerContinues(cons, seq) ==
    CASE cons.kind = "Collect"  -> Collect(seq).err = NoErr
      [] cons.kind = "CollectN" ->
            LET r == CollectN(seq, cons.n) IN
            r.err = NoErr /\ Len(r.items) < cons.n
      [] cons.kind = "First"    -> FALSE
      [] cons.kind = "range"    -> Len(seq) # cons.n

\* the state of a chain before its source has pushed anything
ChainStart(stages) == [cnt |-> [i \in 1..Len(stages) |-> 0], recv |-> << >>]

\* the consumer's yield: the pair is recorded with the answer
Consume(cons, st, pair) ==
    LET a == ConsumerContinues(cons, Append(PairsOf(st.recv), pair)) IN
    [st  |-> [st EXCEPT !.recv = Append(@, Pair(pair.item, pair.err, a))],
     ans |-> a]

TakeDoneLate(count, n) == count > n

\* Take: "count++; if count >= n { return }"
TakeDone(count, n) == count >= n

TakeIgnoresError(n, i, pair, y) ==
    IF ~y.ans
    THEN [st |-> y.st, ans |-> FALSE]
    ELSE LET count == y.st.cnt[i] + 1 IN
         [st |-> [y.st EXCEPT !.cnt[i] = count], ans |-> ~(count >= n)]

\* Take, one iteration of its loop, for the Take at place i of the chain:
\* y is what yield(item, err) did; the answer is what Take's own yield
\* returns to its source (false: Take has returned)
Take(n, i, pair, y) ==
    IF ~y.ans \/ pair.err # NoErr
    THEN [st |-> y.st, ans |-> FALSE]
    ELSE LET count == y.st.cnt[i] + 1 IN
         [st |-> [y.st EXCEPT !.cnt[i] = count],
          ans |-> ~TakeDone(count, n)]

FilterTestsErrorItems(pred, pair, st, y) ==
    IF ~Pred(pred, pair.item)
    THEN [st |-> st, ans |-> pair.err = NoErr]
    ELSE IF pair.err # NoErr
         THEN [st |-> y.st, ans |-> FALSE]
         ELSE [st |-> y.st, ans |-> y.ans]

\* Filter, one iteration of its loop: st is the chain's state before it,
\* y is what yield(item, err) did
Filter(pred, pair, st, y) ==
    IF pair.err # NoErr
    THEN [st |-> y.st, ans |-> FALSE]
    ELSE IF Pred(pred, pair.item)
         THEN [st |-> y.st, ans |-> y.ans]
         ELSE [st |-> st, ans |-> TRUE]

MapYieldsKeepsItem(fn, pair) ==
    IF pair.err # NoErr
    THEN SeqPair(pair.item, pair.err)
    ELSE SeqPair(Apply(fn, pair.item), NoErr)

\* the pair Map passes to yield: (zero, err) or (fn(item), nil)
MapYields(fn, pair) ==
    IF pair.err # NoErr
    THEN SeqPair(NilItem, pair.err)
    ELSE SeqPair(Apply(fn, pair.item), NoErr)

MapStopsAfterFirst(pair, y) == [st |-> y.st, ans |-> FALSE]

\* Map, one iteration of its loop: y is what yield did with MapYields
Map(pair, y) ==
    IF pair.err # NoErr
    THEN [st |-> y.st, ans |-> FALSE]
    ELSE [st |-> y.st, ans |-> y.ans]

\* the source of place i (the consumer's, when i is past the chain) passes
\* a pair to its yield function: the combinators from place i on run, each
\* calling the next one's yield, and the answer comes back down
RECURSIVE Push(_, _, _, _, _)
Push(stages, cons, st, i, pair) ==
    IF i > Len(stages)
    THEN Consume(cons, st, pair)
    ELSE LET s   == stages[i]
             out == IF s.kind = "Map" THEN MapYields(s.f, pair) ELSE pair
             y   == Push(stages, cons, st, i + 1, out)
         IN  CASE s.kind = "Take"   -> Take(s.n, i, pair, y)
               [] s.kind = "Filter" -> Filter(s.f, pair, st, y)
               [] s.kind = "Map"    -> Map(pair, y)

\* ------------------------------------------------------------------------
\* Client construction
\* ------------------------------------------------------------------------

\* A URL string is the list of its parts: a host part such as
\* "https://api.xsoar.example.com" and "/" characters.  << >> is "".

\* a host part url.Parse rejects (an invalid character in the host name)
BadHost == "https://api xsoar.example.com"

GoodHost == "https://api.xsoar.example.com"

\* strings.TrimSuffix(s, "/"): one trailing "/" is removed
TrimSuffixSlash(s) ==
    IF Len(s) > 0 /\ s[Len(s)] = "/" THEN SubSeq(s, 1, Len(s) - 1) ELSE s

\* url.Parse(s): [ok, url]; the parts of the model that parse are
\* serialised by URL.String() as they were written
urlParse(s) ==
    IF \E i \in 1..Len(s) : s[i] = BadHost
    THEN [ok |-> FALSE, url |-> << >>]
    ELSE [ok |-> TRUE, url |-> s]

ErrNoCredentials == [type |-> "ErrNoCredentials", status |-> 0]

ErrNoBaseURL == [type |-> "ErrNoBaseURL", status |-> 0]

\* NewTransport: "invalid base URL: %w"
ErrInvalidBaseURL == [type |-> "invalid base URL", status |-> 0]

\* client options
WithBaseURL(url) ==
    [kind |-> "WithBaseURL", url |-> url, keyID |-> "", apiKey |-> "",
     val |-> ""]

WithAPIKey(keyID, apiKey) ==
    [kind |-> "WithAPIKey", url |-> << >>, keyID |-> keyID,
     apiKey |-> apiKey, val |-> ""]

WithHTTPClient(client) ==
    [kind |-> "WithHTTPClient", url |-> << >>, keyID |-> "", apiKey |-> "",
     val |-> client]

WithTimeout(d) ==
    [kind |-> "WithTimeout", url |-> << >>, keyID |-> "", apiKey |-> "",
     val |-> d]

WithUserAgent(ua) ==
    [kind |-> "WithUserAgent", url |-> << >>, keyID |-> "", apiKey |-> "",
     val |-> ua]

\* NewClient: "cfg := &clientConfig{timeout: defaultTimeout}"
NewClientConfig ==
    [baseURL |-> << >>, keyID |-> "", apiKey |-> "", httpClient |-> "nil",
     timeout |-> "30s", userAgent |-> ""]

ApplyClientOptionKeepsFirst(cfg, opt) ==
    CASE opt.kind = "WithBaseURL" ->
            IF cfg.baseURL = << >>
            THEN [cfg EXCEPT !.baseURL = opt.url]
            ELSE cfg
      [] opt.kind = "WithAPIKey" ->
            [cfg EXCEPT !.keyID = opt.keyID, !.apiKey = opt.apiKey]
      [] opt.kind = "WithHTTPClient" -> [cfg EXCEPT !.httpClient = opt.val]
      [] opt.kind = "WithTimeout" -> [cfg EXCEPT !.timeout = opt.val]
      [] opt.kind = "WithUserAgent" -> [cfg EXCEPT !.userAgent = opt.val]

\* opt(cfg) for each kind of ClientOption
ApplyClientOption(cfg, opt) ==
    CASE opt.kind = "WithBaseURL" -> [cfg EXCEPT !.baseURL = opt.url]
      [] opt.kind = "WithAPIKey" ->
            [cfg EXCEPT !.keyID = opt.keyID, !.apiKey = opt.apiKey]
      [] opt.kind = "WithHTTPClient" -> [cfg EXCEPT !.httpClient = opt.val]
      [] opt.kind = "WithTimeout" -> [cfg EXCEPT !.timeout = opt.val]
      [] opt.kind = "WithUserAgent" -> [cfg EXCEPT !.userAgent = opt.val]

\* NewClient: "for _, opt := range opts { opt(cfg) }"
RECURSIVE ApplyClientOptions(_, _)
ApplyClientOptions(cfg, opts) ==
    IF opts = << >>
    THEN cfg
    ELSE ApplyClientOptions(ApplyClientOption(cfg, Head(opts)), Tail(opts))

\* a nil *Client
NilClient ==
    [isNil |-> TRUE, BaseURL |-> << >>, KeyID |-> "", APIKey |-> "",
     UserAgent |-> "", HTTPTimeout |-> "", Incidents |-> FALSE]

\* NewTransport: [transport, err]; creds is never nil here
NewTransport(baseURL, keyID, apiKey, httpClient, timeout) ==
    LET u == urlParse(TrimSuffixSlash(baseURL)) IN
    IF ~u.ok
    THEN [transport |-> NilClient, err |-> ErrInvalidBaseURL]
    ELSE [transport |->
              [isNil |-> FALSE, BaseURL |-> u.url, KeyID |-> keyID,
               APIKey |-> apiKey, UserAgent |-> "go-xsoar/1.0",
               HTTPTimeout |-> IF httpClient = "nil" THEN timeout
                               ELSE httpClient,
               Incidents |-> FALSE],
          err |-> NoErr]

\* NewClient(opts...): [client, err]; the client is its transport, with
\* Incidents set by newIncidentService
NewClient(opts) ==
    LET cfg == ApplyClientOptions(NewClientConfig, opts) IN
    IF cfg.baseURL = << >>
    THEN [client |-> NilClient, err |-> ErrNoBaseURL]
    ELSE IF cfg.keyID = "" \/ cfg.apiKey = ""
    THEN [client |-> NilClient, err |-> ErrNoCredentials]
    ELSE LET t == NewTransport(cfg.baseURL, cfg.keyID, cfg.apiKey,
                               cfg.httpClient, cfg.timeout)
         IN  IF t.err # NoErr
             THEN [client |-> NilClient, err |-> t.err]
             ELSE [client |->
                       [t.transport EXCEPT
                           !.UserAgent = IF cfg.userAgent # ""
                                         THEN cfg.userAgent ELSE @,
                           !.Incidents = TRUE],
                   err |-> NoErr]

\* Client.BaseURL()
BaseURL(c) == c.BaseURL

\* ------------------------------------------------------------------------
\* Requests and incident operations
\* ------------------------------------------------------------------------

\* textproto.CanonicalMIMEHeaderKey, on the header names of the model
CanonicalMIMEHeaderKey(k) ==
    CASE k = "x-xdr-auth-id" -> "X-Xdr-Auth-Id"
      [] k = "authorization" -> "Authorization"
      [] k = "X-Request-ID"  -> "X-Request-Id"
      [] OTHER               -> k

\* make(http.Header)
newRequestConfig == [k \in {} |-> ""]

\* http.Header.Set(key, value)
HeaderSet(h, key, value) ==
    LET c == CanonicalMIMEHeaderKey(key) IN
    [k \in DOMAIN h \cup {c} |-> IF k = c THEN value ELSE h[k]]

\* http.Header.Get(key)
HeaderGet(h, key) ==
    LET c == CanonicalMIMEHeaderKey(key) IN
    IF c \in DOMAIN h THEN h[c] ELSE ""

\* maps.Copy(dst, src)
mapsCopy(dst, src) ==
    [k \in DOMAIN dst \cup DOMAIN src |->
        IF k \in DOMAIN src THEN src[k] ELSE dst[k]]

\* request options; the map of WithHeaders has keys with distinct canonical
\* forms, so the order in which it is ranged over does not matter
WithHeader(key, value) ==
    [kind |-> "WithHeader", headers |-> HeaderSet(newRequestConfig, key,
                                                  value)]

WithHeaders(headers) ==
    [kind    |-> "WithHeaders",
     headers |-> [c \in {CanonicalMIMEHeaderKey(k) : k \in DOMAIN headers} |->
                     headers[CHOOSE k \in DOMAIN headers :
                                 CanonicalMIMEHeaderKey(k) = c]]]

WithRequestID(id) == WithHeader("X-Request-ID", id)

\* requestConfig.apply(opts...): every option sets its headers
RECURSIVE requestConfigApply(_, _)
requestConfigApply(h, opts) ==
    IF opts = << >>
    THEN h
    ELSE requestConfigApply(
             [k \in DOMAIN h \cup DOMAIN Head(opts).headers |->
                 IF k \in DOMAIN Head(opts).headers
                 THEN Head(opts).headers[k] ELSE h[k]],
             Tail(opts))

\* Credentials.Apply(req), on the header of the request
CredentialsApply(c, h) ==
    HeaderSet(HeaderSet(h, "x-xdr-auth-id", c.KeyID),
              "Authorization", c.APIKey)

\* Transport.buildRequest: default headers, then the credentials, then the
\* headers of the request options
buildRequest(c, method, path, hasBody, headers) ==
    LET h1 == IF hasBody
              THEN HeaderSet(newRequestConfig, "Content-Type",
                             "application/json")
              ELSE newRequestConfig
        h2 == HeaderSet(h1, "Accept", "application/json")
        h3 == HeaderSet(h2, "User-Agent", c.UserAgent)
        h4 == CredentialsApply(c, h3)
    IN  [Method |-> method, Path |-> path, Header |-> mapsCopy(h4, headers)]

ErrValidation == [type |-> "ValidationError", status |-> 0]

ErrNotFound == [type |-> "NotFoundError", status |-> StatusNotFound]

\* a nil pointer dereference: the call panics
Panic == [type |-> "panic", status |-> 0]

validateIDAcceptsEmpty(id) == NoErr

validateID(id) == IF id = "" THEN ErrValidation ELSE NoErr

\* *CreateIncidentRequest
NilCreateRequest == [isNil |-> TRUE, Name |-> "", Type |-> ""]

CreateIncidentRequest(name, type) ==
    [isNil |-> FALSE, Name |-> name, Type |-> type]

validateCreateRequest(req) ==
    IF req.isNil \/ req.Name = "" \/ req.Type = ""
    THEN ErrValidation
    ELSE NoErr

\* Transport.DoJSON with a nil result: nothing is decoded
DoJSONNoResult(resp) ==
    IF resp.fail
    THEN [hasResp |-> FALSE, err |-> ErrTransport]
    ELSE [hasResp |-> TRUE, err |-> NoErr]

\* what an operation returns when it has sent nothing
NotSent(err) == [err |-> err, sent |-> << >>]

\* the tail of Get, Update, Close and Delete, from the return of DoJSON on
AfterDoJSON(r, resp, notFound) ==
    IF r.err # NoErr
    THEN r.err
    ELSE IF notFound /\ resp.status = StatusNotFound
    THEN ErrNotFound
    ELSE IF resp.status >= StatusBadRequest
    THEN parseError(resp.status, resp)
    ELSE NoErr

\* the incident operations: [err, sent], sent being the requests that
\* reached buildRequest; resp is the outcome of the HTTP round trip
Get(c, id, opts, resp) ==
    IF validateID(id) # NoErr
    THEN NotSent(validateID(id))
    ELSE [err  |-> AfterDoJSON(DoJSON(resp), resp, TRUE),
          sent |-> <<buildRequest(c, "GET", "/incident/{id}", FALSE,
                        requestConfigApply(newRequestConfig, opts))>>]

Create(c, req, opts, resp) ==
    IF validateCreateRequest(req) # NoErr
    THEN NotSent(validateCreateRequest(req))
    ELSE [err  |-> AfterDoJSON(DoJSON(resp), resp, FALSE),
          sent |-> <<buildRequest(c, "POST", "/incident", TRUE,
                        requestConfigApply(newRequestConfig, opts))>>]

\* Update and Close read fields of req after validateID: a nil req panics
Update(c, id, reqIsNil, opts, resp) ==
    IF validateID(id) # NoErr
    THEN NotSent(validateID(id))
    ELSE IF reqIsNil
    THEN NotSent(Panic)
    ELSE [err  |-> AfterDoJSON(DoJSONNoResult(resp), resp, TRUE),
          sent |-> <<buildRequest(c, "POST", "/incident/update", TRUE,
                        requestConfigApply(newRequestConfig, opts))>>]

Close(c, id, reqIsNil, opts, resp) ==
    IF validateID(id) # NoErr
    THEN NotSent(validateID(id))
    ELSE IF reqIsNil
    THEN NotSent(Panic)
    ELSE [err  |-> AfterDoJSON(DoJSONNoResult(resp), resp, TRUE),
          sent |-> <<buildRequest(c, "POST", "/incident/close", TRUE,
                        requestConfigApply(newRequestConfig, opts))>>]

Delete(c, id, opts, resp) ==
    IF validateID(id) # NoErr
    THEN NotSent(validateID(id))
    ELSE [err  |-> AfterDoJSON(DoJSONNoResult(resp), resp, TRUE),
          sent |-> <<buildRequest(c, "POST", "/incident/batchDelete", TRUE,
                        requestConfigApply(newRequestConfig, opts))>>]

\* SearchPage, as far as its request goes
SearchPageRequest(c, opts, resp) ==
    [err  |-> SearchPageResult(resp).err,
     sent |-> <<buildRequest(c, "POST", "/incidents/search", TRUE,
                   requestConfigApply(newRequestConfig, opts))>>]

\* ------------------------------------------------------------------------
\* State
\* ------------------------------------------------------------------------

VARIABLES
    srvItems,     \* number of incidents the server holds (the "total")
    srvPageSize,  \* number of incidents the server returns per page at most
    active,       \* the Search traversals that are running
    pc,           \* per traversal: "idle", "fetch", "check", "yield", "done"
    offset,       \* per traversal: Search's local offset
    page,         \* per traversal: the page yieldPageItems ranges over
    idx,          \* per traversal: index in page.Data of the current item
    cancelled,    \* per traversal: ctx.Err() # nil
    pushed,       \* per traversal: the pairs passed to yield, each with
                  \*   the value yield returned for it
    fetchLog,     \* per traversal: the SearchPage calls made, each with
                  \*   the request sent and the result
    spIn,         \* SearchPage: the *PageOptions passed to the last call
    spOpts,       \* SearchPage: the caller's *PageOptions as it is now
    spResp,       \* SearchPage: the HTTP outcome of the last call
    spOut,        \* SearchPage: what the last call sent and returned
    spCalls,      \* SearchPage: number of calls made
    itSeq,        \* iterator helpers: the pairs the source sequence pushes
    itN,          \* iterator helpers: the count n given to CollectN
    itOut,        \* iterator helpers: the helper called and what it returned
    chSrc,        \* chain: the pairs the source pushes while it is accepted
    chStages,     \* chain: the combinators wrapped around the source
    chCons,       \* chain: the final consumer
    chPos,        \* chain: number of pairs the source has pushed
    chSt,         \* chain: the Take counters and the pairs the consumer got
    chPc,         \* chain: "idle", "running", "stopped" (yield returned
                  \*   false to the source), "exhausted" (the source ended)
    ncOpts,       \* NewClient: the options it is called with
    ncOut,        \* NewClient: whether it was called, and what it returned
    opIn,         \* incident operation: the call made on the client
    opOut,        \* incident operation: the operation and its error
    httpLog       \* the HTTP requests the client's transport has built

searchVars ==
    <<srvItems, srvPageSize, active, pc, offset, page, idx, cancelled,
      pushed, fetchLog>>

pageVars == <<spIn, spOpts, spResp, spOut, spCalls>>

iterVars == <<itSeq, itN, itOut>>

chainVars == <<chSrc, chStages, chCons, chPos, chSt, chPc>>

clientVars == <<ncOpts, ncOut, opIn, opOut, httpLog>>

vars == <<searchVars, pageVars, iterVars, chainVars, clientVars>>

\* identities of the Search traversals (iterators returned by Search)
Trav == {1, 2}

\* the page fetches one traversal is followed for: one more than a server of
\* MaxItems incidents needs at one incident per page
MaxFetches == MaxItems + 1

\* ------------------------------------------------------------------------
\* The server
\* ------------------------------------------------------------------------

\* the page the server answers to a search request: the incidents
\* Offset+1 .. min(Offset+k, srvItems), k = min(srvPageSize, Limit)
ServerPage(req) ==
    LET k    == Min(srvPageSize, req.Limit)
        last == Min(req.Offset + k, srvItems)
        n    == Max(last - req.Offset, 0)
    IN  [isNil  |-> FALSE,
         Data   |-> [i \in 1..n |-> req.Offset + i],
         Total  |-> srvItems,
         Offset |-> req.Offset]

\* the ways a page fetch of Search may fail
FetchFailures ==
    {FailedResponse,
     Response(503, "text", ZeroPage, 0),
     Response(200, "text", ZeroPage, 0)}

\* the outcomes of the HTTP round trip of one page fetch of traversal t;
\* http.Client.Do fails on a request whose context is already cancelled
FetchResponses(t, req) ==
    IF cancelled[t]
    THEN {FailedResponse}
    ELSE {Response(200, "page", ServerPage(req), 0)} \cup FetchFailures

\* ------------------------------------------------------------------------
\* Search
\* ------------------------------------------------------------------------

\* the traversal whose iterator a chain of combinators may be wrapped around
ChainTrav == 1

\* Search's yield is the yield function of a chain
Chained(t) == t = ChainTrav /\ chCons.kind # "none"

ChainYieldNeverStops(pair) ==
    [Push(chStages, chCons, chSt, 1, pair) EXCEPT !.ans = TRUE]

\* the yield function the chain hands to its source, called with a pair
ChainYield(pair) == Push(chStages, chCons, chSt, 1, pair)

\* what yield may return to traversal t for a pair: what the chain around it
\* computes, or anything when the caller ranges over Search directly
YieldAnswers(t, pair) ==
    IF Chained(t) THEN {ChainYield(pair).ans} ELSE BOOLEAN

\* the chain around traversal t, if any, has run for the pair
ChainReceives(t, pair) ==
    /\ IF Chained(t)
       THEN /\ chSt' = ChainYield(pair).st
            /\ chPc' = IF ChainYield(pair).ans THEN chPc ELSE "stopped"
       ELSE UNCHANGED <<chSt, chPc>>
    /\ UNCHANGED <<chSrc, chStages, chCons, chPos>>

SearchOffsetShared(t) == offset[ChainTrav]

\* Search: "offset := 0" inside the returned function, a variable of the
\* traversal
SearchOffset(t) == offset[t]

\* ctx.Err()
CtxErrNeverChecked(c) == NoErr

CtxErr(c) == IF c THEN ErrCanceled ELSE NoErr

\* yieldPageItems: "if !yield(incident, nil) { return false }", and Search:
\* "if !s.yieldPageItems(...) { return }"
YieldIgnoresStop(ans) == TRUE

YieldContinues(ans) == ans

\* Search: "yield(nil, err); return"
PcAfterFetchErrorRetry == "fetch"

PcAfterFetchError == "done"

PcAfterPageAlwaysFetch(p) == "fetch"

\* Search, after yieldPageItems returned true
PcAfterPage(p) == IF HasMore(p) THEN "fetch" ELSE "done"

OffsetAfterPageStuck(p, o) == o

\* Search: "offset = page.NextOffset()" when the page has more
OffsetAfterPage(p, o) == IF HasMore(p) THEN NextOffset(p) ELSE o

\* yieldPageItems: "for _, incident := range page.Data" has run through the
\* page
PageDeliveredAfterFirst(t) == TRUE

PageDelivered(t) == idx[t] >= Len(page[t].Data)

\* Search: the PageOptions of the next SearchPage call, the current offset
\* and the default page size, as SearchPage puts them in the request
SearchRequest(t) ==
    SearchPageOptions(PageOptions(SearchOffset(t), defaultPageSize))

\* Search: one SearchPage call, answered by one of responses, while the
\* traversal has made fewer than cap fetches; a failed fetch pushes the error
\* pair and ends the traversal, an empty page falls through yieldPageItems to
\* the HasMore test
FetchWith(t, responses, cap) ==
    /\ pc[t] = "fetch"
    /\ Len(fetchLog[t]) < cap
    /\ LET req == SearchRequest(t)
       IN  \E resp \in responses :
             LET r == SearchPageResult(resp) IN
             /\ fetchLog' = [fetchLog EXCEPT ![t] =
                    Append(@, [req |-> req, page |-> r.page, err |-> r.err])]
             /\ IF r.err # NoErr
                THEN \E ans \in YieldAnswers(t, SeqPair(NilItem, r.err)) :
                     /\ pushed' = [pushed EXCEPT ![t] =
                            Append(@, Pair(NilItem, r.err, ans))]
                     /\ ChainReceives(t, SeqPair(NilItem, r.err))
                     /\ pc' = [pc EXCEPT ![t] = PcAfterFetchError]
                     /\ UNCHANGED <<offset, page, idx>>
                ELSE IF Len(r.page.Data) = 0
                THEN /\ pc' = [pc EXCEPT ![t] = PcAfterPage(r.page)]
                     /\ offset' = [offset EXCEPT ![t] =
                            OffsetAfterPage(r.page, @)]
                     /\ page' = [page EXCEPT ![t] = r.page]
                     /\ UNCHANGED <<pushed, idx, chainVars>>
                ELSE /\ page' = [page EXCEPT ![t] = r.page]
                     /\ idx' = [idx EXCEPT ![t] = 1]
                     /\ pc' = [pc EXCEPT ![t] = "check"]
                     /\ UNCHANGED <<pushed, offset, chainVars>>
    /\ UNCHANGED <<srvItems, srvPageSize, active, cancelled, pageVars,
                   iterVars, clientVars>>

\* a page fetch of traversal t against the server of srvItems incidents
Fetch(t) ==
    FetchWith(t, FetchResponses(t, SearchRequest(t)), MaxFetches)

\* yieldPageItems: the ctx.Err() test in front of the current item
Check(t) ==
    /\ pc[t] = "check"
    /\ IF CtxErr(cancelled[t]) # NoErr
       THEN \E ans \in YieldAnswers(t,
                              SeqPair(NilItem, CtxErr(cancelled[t]))) :
              /\ pushed' = [pushed EXCEPT ![t] =
                     Append(@, Pair(NilItem, CtxErr(cancelled[t]), ans))]
              /\ ChainReceives(t, SeqPair(NilItem, CtxErr(cancelled[t])))
              /\ pc' = [pc EXCEPT ![t] = "done"]
       ELSE /\ pc' = [pc EXCEPT ![t] = "yield"]
            /\ UNCHANGED <<pushed, chainVars>>
    /\ UNCHANGED <<srvItems, srvPageSize, active, offset, page, idx,
                   cancelled, fetchLog, pageVars, iterVars, clientVars>>

\* yieldPageItems: yield(incident, nil) for the current item; after the last
\* item of the page control returns to Search and its HasMore test
Yield(t) ==
    /\ pc[t] = "yield"
    /\ \E ans \in YieldAnswers(t, SeqPair(page[t].Data[idx[t]], NoErr)) :
         /\ pushed' = [pushed EXCEPT ![t] =
                Append(@, Pair(page[t].Data[idx[t]], NoErr, ans))]
         /\ ChainReceives(t, SeqPair(page[t].Data[idx[t]], NoErr))
         /\ IF ~YieldContinues(ans)
            THEN /\ pc' = [pc EXCEPT ![t] = "done"]
                 /\ UNCHANGED <<offset, idx>>
            ELSE IF ~PageDelivered(t)
            THEN /\ idx' = [idx EXCEPT ![t] = @ + 1]
                 /\ pc' = [pc EXCEPT ![t] = "check"]
                 /\ UNCHANGED offset
            ELSE /\ pc' = [pc EXCEPT ![t] = PcAfterPage(page[t])]
                 /\ offset' = [offset EXCEPT ![t] =
                        OffsetAfterPage(page[t], @)]
                 /\ UNCHANGED idx
    /\ UNCHANGED <<srvItems, srvPageSize, active, page, cancelled, fetchLog,
                   pageVars, iterVars, clientVars>>

\* the context of traversal t is cancelled (cancel() or a deadline), at any
\* moment and from any goroutine
Cancel(t) ==
    /\ pc[t] # "idle"
    /\ ~cancelled[t]
    /\ cancelled' = [cancelled EXCEPT ![t] = TRUE]
    /\ UNCHANGED <<srvItems, srvPageSize, active, pc, offset, page, idx,
                   pushed, fetchLog, pageVars, iterVars, chainVars,
                   clientVars>>

\* SearchPage has not been called
NoCall ==
    [called |-> FALSE, sent |-> PageOptions(0, 0), page |-> NilPage,
     err |-> NoErr]

SearchIdle ==
    /\ active = {}
    /\ pc = [t \in Trav |-> "idle"]
    /\ offset = [t \in Trav |-> 0]
    /\ page = [t \in Trav |-> NilPage]
    /\ idx = [t \in Trav |-> 0]
    /\ cancelled = [t \in Trav |-> FALSE]
    /\ pushed = [t \in Trav |-> << >>]
    /\ fetchLog = [t \in Trav |-> << >>]

PageIdle ==
    /\ spIn = NilOpts
    /\ spOpts = NilOpts
    /\ spResp = FailedResponse
    /\ spOut = NoCall
    /\ spCalls = 0

IterIdle ==
    /\ itSeq = << >>
    /\ itN = 0
    /\ itOut = NoHelper

\* NewClient has not been called
NoNewClient == [called |-> FALSE, client |-> NilClient, err |-> NoErr]

\* no incident operation has been called
NoOpIn ==
    [op |-> "none", id |-> "", req |-> NilCreateRequest, reqIsNil |-> FALSE,
     opts |-> << >>]

NoOpOut == [op |-> "none", err |-> NoErr]

ClientIdle ==
    /\ ncOpts = << >>
    /\ ncOut = NoNewClient
    /\ opIn = NoOpIn
    /\ opOut = NoOpOut
    /\ httpLog = << >>

ChainIdle ==
    /\ chSrc = << >>
    /\ chStages = << >>
    /\ chCons = NoConsumer
    /\ chPos = 0
    /\ chSt = ChainStart(<< >>)
    /\ chPc = "idle"

\* one traversal, freshly returned by Search, of a server with any number of
\* items and any page size
Init ==
    /\ srvItems \in 0..MaxItems
    /\ srvPageSize \in 1..MaxPageLen
    /\ active = {1}
    /\ pc = [t \in Trav |-> IF t = 1 THEN "fetch" ELSE "idle"]
    /\ offset = [t \in Trav |-> 0]
    /\ page = [t \in Trav |-> NilPage]
    /\ idx = [t \in Trav |-> 0]
    /\ cancelled = [t \in Trav |-> FALSE]
    /\ pushed = [t \in Trav |-> << >>]
    /\ fetchLog = [t \in Trav |-> << >>]
    /\ PageIdle
    /\ IterIdle
    /\ ChainIdle
    /\ ClientIdle

Next ==
    \/ \E t \in active : Fetch(t)
    \/ \E t \in active : Check(t)
    \/ \E t \in active : Yield(t)
    \/ \E t \in active : Cancel(t)

Spec == Init /\ [][Next]_vars

\* the same traversal when the function returned by Search keeps running: a
\* page fetch returns, and the consumer answers every pair it is handed
Fairness ==
    /\ WF_vars(\E t \in active : Fetch(t))
    /\ WF_vars(\E t \in active : Check(t))
    /\ WF_vars(\E t \in active : Yield(t))

SpecLive == Init /\ [][Next]_vars /\ Fairness

\* ------------------------------------------------------------------------
\* SearchPage called directly
\* ------------------------------------------------------------------------

\* limits and offsets a caller puts in PageOptions
Limits == {-5, 0, 1, 2, 100, 999, 1000, 1001, 5000}

Offsets == {0, 2}

PageInputs ==
    {NilOpts} \cup {PageOptions(o, l) : o \in Offsets, l \in Limits}

\* status codes the server answers with
Statuses ==
    {200, 201, 204, 399, 400, 401, 402, 403, 404, 409, 429, 499, 500, 503,
     599, 600}

\* the outcomes of the HTTP round trip of a SearchPage call
PageResponses(req) ==
    {FailedResponse}
    \cup {Response(s, b, ZeroPage, 0) : s \in Statuses, b \in {"empty", "text"}}
    \cup {Response(s, "page", ServerPage(req), 0) : s \in Statuses}
    \cup {Response(s, "errjson", ZeroPage, bs) :
              s \in Statuses, bs \in {404, 503}}

\* SearchPage(ctx, filter, page) with page = spOpts, the caller's value
CallSearchPage ==
    /\ spCalls < MaxCalls
    /\ LET req == SearchPageOptions(spOpts) IN
       \E resp \in PageResponses(req) :
         LET r == SearchPageResult(resp) IN
         /\ spIn' = spOpts
         /\ spOpts' = CallerOptionsAfter(spOpts)
         /\ spResp' = resp
         /\ spOut' = [called |-> TRUE, sent |-> req, page |-> r.page,
                      err |-> r.err]
         /\ spCalls' = spCalls + 1
    /\ UNCHANGED <<searchVars, iterVars, chainVars, clientVars>>

InitPage ==
    /\ srvItems \in {0, MaxItems}
    /\ srvPageSize = MaxPageLen
    /\ SearchIdle
    /\ IterIdle
    /\ ChainIdle
    /\ ClientIdle
    /\ spIn = NilOpts
    /\ spOpts \in PageInputs
    /\ spResp = FailedResponse
    /\ spOut = NoCall
    /\ spCalls = 0

NextPage == CallSearchPage

SpecPage == InitPage /\ [][NextPage]_vars

\* ------------------------------------------------------------------------
\* The iterator helpers called on a sequence
\* ------------------------------------------------------------------------

ErrTest == [type |-> "test error", status |-> 0]

ErrOther == [type |-> "other error", status |-> 0]

\* the pairs a source may push: values, an error with the zero item, an
\* error that comes with an item
PairKinds ==
    {SeqPair(1, NoErr), SeqPair(2, NoErr), SeqPair(NilItem, ErrTest),
     SeqPair(1, ErrOther)}

Sources == UNION {[1..k -> PairKinds] : k \in 0..MaxSeqLen}

CallCollect ==
    /\ itOut.op = "none"
    /\ LET r == Collect(itSeq) IN
       itOut' = [op |-> "Collect", items |-> r.items, item |-> NilItem,
                 err |-> r.err, pulled |-> r.pulled]
    /\ UNCHANGED <<searchVars, pageVars, itSeq, itN, chainVars, clientVars>>

CallCollectN ==
    /\ itOut.op = "none"
    /\ LET r == CollectN(itSeq, itN) IN
       itOut' = [op |-> "CollectN", items |-> r.items, item |-> NilItem,
                 err |-> r.err, pulled |-> r.pulled]
    /\ UNCHANGED <<searchVars, pageVars, itSeq, itN, chainVars, clientVars>>

\* Collect(Take(seq, n)): the source pushes its pairs into Take, whose yield
\* is the loop body of Collect, until yield returns false or none is left
RECURSIVE RangeOver(_, _, _, _, _)
RangeOver(src, stages, cons, st, i) ==
    IF i > Len(src)
    THEN [st |-> st, pulled |-> Len(src)]
    ELSE LET r == Push(stages, cons, st, 1, src[i]) IN
         IF r.ans
         THEN RangeOver(src, stages, cons, r.st, i + 1)
         ELSE [st |-> r.st, pulled |-> i]

CollectTake(seq, n) ==
    LET run == RangeOver(seq, <<TakeStage(n)>>, CollectConsumer,
                         ChainStart(<<TakeStage(n)>>), 1)
        r   == Collect(PairsOf(run.st.recv))
    IN  [items |-> r.items, err |-> r.err, pulled |-> run.pulled]

CallCollectTake ==
    /\ itOut.op = "none"
    /\ LET r == CollectTake(itSeq, itN) IN
       itOut' = [op |-> "CollectTake", items |-> r.items, item |-> NilItem,
                 err |-> r.err, pulled |-> r.pulled]
    /\ UNCHANGED <<searchVars, pageVars, itSeq, itN, chainVars, clientVars>>

CallFirst ==
    /\ itOut.op = "none"
    /\ LET r == First(itSeq) IN
       itOut' = [op |-> "First", items |-> << >>, item |-> r.item,
                 err |-> r.err, pulled |-> r.pulled]
    /\ UNCHANGED <<searchVars, pageVars, itSeq, itN, chainVars, clientVars>>

InitIter ==
    /\ srvItems = 0
    /\ srvPageSize = 1
    /\ SearchIdle
    /\ PageIdle
    /\ ChainIdle
    /\ ClientIdle
    /\ itSeq \in Sources
    /\ itN \in 0..MaxCount
    /\ itOut = NoHelper

NextIter ==
    \/ CallCollect
    \/ CallCollectN
    \/ CallFirst
    \/ CallCollectTake

SpecIter == InitIter /\ [][NextIter]_vars

\* ------------------------------------------------------------------------
\* The iterator combinators around a sequence
\* ------------------------------------------------------------------------

\* the combinators with the arguments they are given
StageKinds ==
    {TakeStage(n) : n \in 0..MaxCount}
        \cup {FilterStage(p) : p \in Preds}
        \cup {MapStage(f) : f \in Fns}

\* one combinator around the source
SingleStages == {<<s>> : s \in StageKinds}

\* Take(Map(Filter(seq, p), f), n) with n >= 1
Compositions ==
    {<<FilterStage(p), MapStage(f), TakeStage(n)>> :
        p \in Preds, f \in Fns, n \in 1..MaxCount}

\* the sources that push values only, and the one of the composition test
ValueSources == UNION {[1..k -> {SeqPair(v, NoErr) : v \in 1..MaxItems}] :
                       k \in 0..MaxSeqLen}

OneToTen == [i \in 1..10 |-> SeqPair(i, NoErr)]

\* the source pushes its next pair into the chain; it returns when yield
\* returns false
ChainPull ==
    /\ chPc = "running"
    /\ chPos < Len(chSrc)
    /\ LET r == ChainYield(chSrc[chPos + 1]) IN
       /\ chSt' = r.st
       /\ chPc' = IF r.ans THEN "running" ELSE "stopped"
    /\ chPos' = chPos + 1
    /\ UNCHANGED <<searchVars, pageVars, iterVars, chSrc, chStages, chCons,
                   clientVars>>

\* the source has no pair left: its loop ends, and so does every loop
\* ranging over it
ChainEnd ==
    /\ chPc = "running"
    /\ chPos = Len(chSrc)
    /\ chPc' = "exhausted"
    /\ UNCHANGED <<searchVars, pageVars, iterVars, chSrc, chStages, chCons,
                   chPos, chSt, clientVars>>

\* one combinator over any source, ranged over by a loop that breaks at any
\* pair or never; or the composition collected over a source of values
InitChain ==
    /\ srvItems = 0
    /\ srvPageSize = 1
    /\ SearchIdle
    /\ PageIdle
    /\ IterIdle
    /\ \/ /\ chSrc \in Sources
          /\ chStages \in SingleStages
          /\ chCons \in {RangeConsumer(k) : k \in 0..MaxSeqLen}
       \/ /\ chSrc \in ValueSources \cup {OneToTen}
          /\ chStages \in Compositions
          /\ chCons = CollectConsumer
    /\ chPos = 0
    /\ chSt = ChainStart(chStages)
    /\ chPc = "running"
    /\ ClientIdle

NextChain ==
    \/ ChainPull
    \/ ChainEnd

SpecChain == InitChain /\ [][NextChain]_vars

\* ------------------------------------------------------------------------
\* Two Search traversals of one client
\* ------------------------------------------------------------------------

\* two iterators returned by Search on the same client, both ranged over by
\* callers of their own; their steps interleave in any order
InitConcurrent ==
    /\ srvItems \in 0..MaxItems
    /\ srvPageSize \in 1..MaxPageLen
    /\ active = Trav
    /\ pc = [t \in Trav |-> "fetch"]
    /\ offset = [t \in Trav |-> 0]
    /\ page = [t \in Trav |-> NilPage]
    /\ idx = [t \in Trav |-> 0]
    /\ cancelled = [t \in Trav |-> FALSE]
    /\ pushed = [t \in Trav |-> << >>]
    /\ fetchLog = [t \in Trav |-> << >>]
    /\ PageIdle
    /\ IterIdle
    /\ ChainIdle
    /\ ClientIdle

SpecConcurrent == InitConcurrent /\ [][Next]_vars

\* ------------------------------------------------------------------------
\* The iterator combinators around Search
\* ------------------------------------------------------------------------

\* the chains of at most MaxDepth combinators
Chains == UNION {[1..d -> StageKinds] : d \in 0..MaxDepth}

\* the helpers that consume a chain
Helpers ==
    {CollectConsumer, FirstConsumer}
        \cup {CollectNConsumer(n) : n \in 0..MaxCount}

\* one traversal, freshly returned by Search, inside a chain that a helper
\* ranges over
InitSearchChain ==
    /\ srvItems \in {0, MaxItems}
    /\ srvPageSize \in {1, MaxPageLen}
    /\ active = {ChainTrav}
    /\ pc = [t \in Trav |-> IF t = ChainTrav THEN "fetch" ELSE "idle"]
    /\ offset = [t \in Trav |-> 0]
    /\ page = [t \in Trav |-> NilPage]
    /\ idx = [t \in Trav |-> 0]
    /\ cancelled = [t \in Trav |-> FALSE]
    /\ pushed = [t \in Trav |-> << >>]
    /\ fetchLog = [t \in Trav |-> << >>]
    /\ PageIdle
    /\ IterIdle
    /\ chSrc = << >>
    /\ chStages \in Chains
    /\ chCons \in Helpers
    /\ chPos = 0
    /\ chSt = ChainStart(chStages)
    /\ chPc = "running"
    /\ ClientIdle

SpecSearchChain == InitSearchChain /\ [][Next]_vars

\* ------------------------------------------------------------------------
\* SpecRerange: the iterator value returned by one Search call, ranged over
\* more than once
\* ------------------------------------------------------------------------

\* the times the function returned by Search has been called so far: each
\* call starts with a fetch at offset 0, and against the server of srvItems
\* incidents no later fetch of a call is at offset 0
Runs(t) ==
    Cardinality({k \in 1..Len(fetchLog[t]) : fetchLog[t][k].req.Offset = 0})

\* the caller ranges over the same iterator value again: the function
\* returned by Search is called again and runs "offset := 0" and the loop
\* anew, with the ctx, filter and options captured by the Search call
Range(t) ==
    /\ pc[t] = "done"
    /\ Runs(t) < MaxRuns
    /\ pc' = [pc EXCEPT ![t] = "fetch"]
    /\ offset' = [offset EXCEPT ![t] = 0]
    /\ page' = [page EXCEPT ![t] = NilPage]
    /\ idx' = [idx EXCEPT ![t] = 0]
    /\ UNCHANGED <<srvItems, srvPageSize, active, cancelled, pushed,
                   fetchLog, pageVars, iterVars, chainVars, clientVars>>

\* a page fetch of a traversal whose iterator may be ranged over again
FetchRerange(t) ==
    FetchWith(t, FetchResponses(t, SearchRequest(t)), MaxRuns * MaxFetches)

InitRerange ==
    /\ srvItems \in {0, MaxItems}
    /\ srvPageSize \in {1, MaxPageLen}
    /\ active = {1}
    /\ pc = [t \in Trav |-> IF t = 1 THEN "fetch" ELSE "idle"]
    /\ offset = [t \in Trav |-> 0]
    /\ page = [t \in Trav |-> NilPage]
    /\ idx = [t \in Trav |-> 0]
    /\ cancelled = [t \in Trav |-> FALSE]
    /\ pushed = [t \in Trav |-> << >>]
    /\ fetchLog = [t \in Trav |-> << >>]
    /\ PageIdle
    /\ IterIdle
    /\ ChainIdle
    /\ ClientIdle

NextRerange ==
    \/ \E t \in active : FetchRerange(t)
    \/ \E t \in active : Check(t)
    \/ \E t \in active : Yield(t)
    \/ \E t \in active : Cancel(t)
    \/ \E t \in active : Range(t)

SpecRerange == InitRerange /\ [][NextRerange]_vars

\* ------------------------------------------------------------------------
\* SpecAnyServer: one traversal against a server that answers anything
\* ------------------------------------------------------------------------

\* the pages a server may answer to a search request: any number of items,
\* any total, and as "fromIndex" the offset asked for, a later one or none
\* (the field absent from the body decodes to 0)
AnyPages(req) ==
    {[isNil  |-> FALSE,
      Data   |-> [i \in 1..n |-> req.Offset + i],
      Total  |-> total,
      Offset |-> off] :
        n \in 0..MaxAnyLen,
        total \in {0, srvItems},
        off \in {0, req.Offset, req.Offset + 1}}

\* the outcomes of one page fetch of traversal t against such a server
AnyResponses(t, req) ==
    IF cancelled[t]
    THEN {FailedResponse}
    ELSE {Response(200, "page", pg, 0) : pg \in AnyPages(req)}

\* a page fetch of traversal t against such a server
FetchAnyServer(t) ==
    FetchWith(t, AnyResponses(t, SearchRequest(t)), MaxAnyFetches)

InitAnyServer ==
    /\ srvItems = MaxItems
    /\ srvPageSize = MaxAnyLen
    /\ active = {1}
    /\ pc = [t \in Trav |-> IF t = 1 THEN "fetch" ELSE "idle"]
    /\ offset = [t \in Trav |-> 0]
    /\ page = [t \in Trav |-> NilPage]
    /\ idx = [t \in Trav |-> 0]
    /\ cancelled = [t \in Trav |-> FALSE]
    /\ pushed = [t \in Trav |-> << >>]
    /\ fetchLog = [t \in Trav |-> << >>]
    /\ PageIdle
    /\ IterIdle
    /\ ChainIdle
    /\ ClientIdle

NextAnyServer ==
    \/ \E t \in active : FetchAnyServer(t)
    \/ \E t \in active : Check(t)
    \/ \E t \in active : Yield(t)

SpecAnyServer == InitAnyServer /\ [][NextAnyServer]_vars

\* ------------------------------------------------------------------------
\* The incident operations called on a client
\* ------------------------------------------------------------------------

\* the credentials clients are configured with
Credentials == {<<"key-id", "api-key">>, <<"key-id-2", "api-key-2">>}

\* incident IDs given to the operations
IDs == {"", "inc-123"}

\* create requests given to Create
CreateRequests ==
    {NilCreateRequest}
        \cup {CreateIncidentRequest(n, t) :
                  n \in {"", "Security Alert"}, t \in {"", "Malware"}}

\* the request options callers pass
RequestOptions ==
    {WithHeader("X-Custom-Header", "custom-value"),
     WithRequestID("test-request-123"),
     WithHeader("Authorization", "other-key"),
     WithHeaders([k \in {"X-Custom-Header", "x-xdr-auth-id"} |->
                     IF k = "x-xdr-auth-id" THEN "other-id" ELSE "v2"])}

RequestOptionLists == UNION {[1..k -> RequestOptions] : k \in 0..MaxRequestOpts}

\* the outcomes of the HTTP round trip of an operation
OpResponses ==
    {FailedResponse}
        \cup {Response(st, b, ZeroPage, 0) :
                  st \in {200, StatusNotFound, StatusInternalServerError},
                  b \in {"empty", "text"}}

\* an operation has been called with these arguments and returned r
OpReturns(op, id, req, reqIsNil, opts, r) ==
    /\ opOut.op = "none"
    /\ ~ncOut.client.isNil
    /\ opIn' = [op |-> op, id |-> id, req |-> req, reqIsNil |-> reqIsNil,
                opts |-> opts]
    /\ opOut' = [op |-> op, err |-> r.err]
    /\ httpLog' = httpLog \o r.sent
    /\ UNCHANGED <<searchVars, pageVars, iterVars, chainVars, ncOpts, ncOut>>

CallGet ==
    \E id \in IDs, opts \in RequestOptionLists, resp \in OpResponses :
        OpReturns("Get", id, NilCreateRequest, FALSE, opts,
                  Get(ncOut.client, id, opts, resp))

CallCreate ==
    \E req \in CreateRequests, opts \in RequestOptionLists,
       resp \in OpResponses :
        OpReturns("Create", "", req, req.isNil, opts,
                  Create(ncOut.client, req, opts, resp))

CallUpdate ==
    \E id \in IDs, reqIsNil \in BOOLEAN, opts \in RequestOptionLists,
       resp \in OpResponses :
        OpReturns("Update", id, NilCreateRequest, reqIsNil, opts,
                  Update(ncOut.client, id, reqIsNil, opts, resp))

CallClose ==
    \E id \in IDs, reqIsNil \in BOOLEAN, opts \in RequestOptionLists,
       resp \in OpResponses :
        OpReturns("Close", id, NilCreateRequest, reqIsNil, opts,
                  Close(ncOut.client, id, reqIsNil, opts, resp))

CallDelete ==
    \E id \in IDs, opts \in RequestOptionLists, resp \in OpResponses :
        OpReturns("Delete", id, NilCreateRequest, FALSE, opts,
                  Delete(ncOut.client, id, opts, resp))

CallSearchPageRequest ==
    \E opts \in RequestOptionLists, resp \in OpResponses :
        OpReturns("SearchPage", "", NilCreateRequest, FALSE, opts,
                  SearchPageRequest(ncOut.client, opts, resp))

\* a client returned by NewClient for a base URL and credentials, with or
\* without a user agent of the caller's
InitOps ==
    /\ srvItems = 0
    /\ srvPageSize = 1
    /\ SearchIdle
    /\ PageIdle
    /\ IterIdle
    /\ ChainIdle
    /\ \E cr \in Credentials, ua \in {<< >>, <<WithUserAgent("my-app/1.0")>>} :
          ncOpts = <<WithBaseURL(<<GoodHost>>), WithAPIKey(cr[1], cr[2])>>
                       \o ua
    /\ ncOut = [called |-> TRUE, client |-> NewClient(ncOpts).client,
                err |-> NewClient(ncOpts).err]
    /\ opIn = NoOpIn
    /\ opOut = NoOpOut
    /\ httpLog = << >>

NextOps ==
    \/ CallGet
    \/ CallCreate
    \/ CallUpdate
    \/ CallClose
    \/ CallDelete
    \/ CallSearchPageRequest

SpecOps == InitOps /\ [][NextOps]_vars

\* ------------------------------------------------------------------------
\* NewClient called with a list of options
\* ------------------------------------------------------------------------

\* base URLs callers configure: empty, plain, with a trailing "/", a lone
\* "/", and one that does not parse
BaseURLs == {<< >>, <<GoodHost>>, <<GoodHost, "/">>, <<"/">>, <<BadHost>>}

ClientOptions ==
    {WithBaseURL(u) : u \in BaseURLs}
        \cup {WithAPIKey(k, a) : k \in {"", "key-id"}, a \in {"", "api-key"}}
        \cup {WithUserAgent("test-agent/1.0"), WithTimeout("60s"),
              WithHTTPClient("90s")}

ClientOptionLists == UNION {[1..k -> ClientOptions] : k \in 0..MaxClientOpts}

CallNewClient ==
    /\ ~ncOut.called
    /\ ncOut' = [called |-> TRUE, client |-> NewClient(ncOpts).client,
                 err |-> NewClient(ncOpts).err]
    /\ UNCHANGED <<searchVars, pageVars, iterVars, chainVars, ncOpts, opIn,
                   opOut, httpLog>>

InitNewClient ==
    /\ srvItems = 0
    /\ srvPageSize = 1
    /\ SearchIdle
    /\ PageIdle
    /\ IterIdle
    /\ ChainIdle
    /\ ncOpts \in ClientOptionLists
    /\ ncOut = NoNewClient
    /\ opIn = NoOpIn
    /\ opOut = NoOpOut
    /\ httpLog = << >>

NextNewClient == CallNewClient

SpecNewClient == InitNewClient /\ [][NextNewClient]_vars

\* ------------------------------------------------------------------------
\* Properties of Search (checked under Spec)
\* ------------------------------------------------------------------------

\* the items of the first k pages of a fetch log, in order
RECURSIVE PagesItems(_, _)
PagesItems(log, k) ==
    IF k = 0 THEN << >> ELSE PagesItems(log, k - 1) \o log[k].page.Data

\* no page fetch of traversal t has failed
NoFetchFailed(t) ==
    \A k \in 1..Len(fetchLog[t]) : fetchLog[t][k].err = NoErr

\* yield answered every pair as the loop of Collect does: true for a value,
\* false (Collect returns) for an error
CollectDrives(t) ==
    \A i \in 1..Len(pushed[t]) :
        pushed[t][i].ans = (pushed[t][i].err = NoErr)

\* the traversal ended, driven by Collect, with no failed fetch and no
\* cancellation
CollectedCleanly(t) ==
    /\ pc[t] = "done"
    /\ ~cancelled[t]
    /\ NoFetchFailed(t)
    /\ CollectDrives(t)

\* C1 as stated: Collect over Search returns the srvItems items in server
\* order with a nil error, and Search issues exactly
\* ceil(srvItems / srvPageSize) page fetches, for every srvItems >= 0.
C1_CeilFetches ==
    \A t \in active :
        CollectedCleanly(t) =>
            LET r == Collect(PairsOf(pushed[t])) IN
            /\ r.items = [i \in 1..srvItems |-> i]
            /\ r.err = NoErr
            /\ Len(fetchLog[t]) = CeilDiv(srvItems, srvPageSize)

\* C1 amended: Collect over Search returns the srvItems items in server
\* order with a nil error; Search issues ceil(srvItems / srvPageSize) page
\* fetches when srvItems >= 1 and one page fetch when srvItems = 0.
C1_ExhaustivePagination ==
    \A t \in active :
        CollectedCleanly(t) =>
            LET r == Collect(PairsOf(pushed[t])) IN
            /\ r.items = [i \in 1..srvItems |-> i]
            /\ r.err = NoErr
            /\ r.pulled = Len(pushed[t])
            /\ Len(fetchLog[t]) =
                   IF srvItems = 0 THEN 1
                   ELSE CeilDiv(srvItems, srvPageSize)

\* a traversal of three items in pages of two ended: two fetches, the
\* second page short
C1_Witness ==
    /\ CollectedCleanly(1)
    /\ srvItems = 3
    /\ srvPageSize = 2
    /\ Len(fetchLog[1]) = 2
    /\ Len(pushed[1]) = 3

\* yield returned false for an item of traversal t
RejectedItem(t) ==
    \E i \in 1..Len(pushed[t]) :
        pushed[t][i].err = NoErr /\ ~pushed[t][i].ans

\* C2: once yield has returned false for an item, Search pushes no further
\* pair and issues no further page fetch.
C2_StopMeansStop ==
    [][\A t \in active :
          RejectedItem(t) =>
              /\ pushed'[t] = pushed[t]
              /\ fetchLog'[t] = fetchLog[t]
              /\ pc'[t] = "done"]_vars

\* yield returned false for the last item of a page after which more pages
\* remain
C2_Witness ==
    /\ RejectedItem(1)
    /\ pc[1] = "done"
    /\ idx[1] = Len(page[1].Data)
    /\ pushed[1][Len(pushed[1])].item = page[1].Data[idx[1]]
    /\ HasMore(page[1])
    /\ Len(pushed[1]) >= 2

\* C3: when the k-th page fetch fails, the pairs pushed are the items of
\* pages 1..k-1 in order followed by one pair with the fetch error and no
\* item; nothing is pushed and nothing is fetched after it, whatever yield
\* returned for the error pair.
C3_FetchErrorTerminal ==
    \A t \in active :
        \A k \in 1..Len(fetchLog[t]) :
            fetchLog[t][k].err # NoErr =>
                LET its == PagesItems(fetchLog[t], k - 1) IN
                /\ k = Len(fetchLog[t])
                /\ pc[t] = "done"
                /\ fetchLog[t][k].page.isNil
                /\ Len(pushed[t]) = Len(its) + 1
                /\ \A i \in 1..Len(its) :
                       /\ pushed[t][i].item = its[i]
                       /\ pushed[t][i].err = NoErr
                /\ pushed[t][Len(its) + 1].item = NilItem
                /\ pushed[t][Len(its) + 1].err = fetchLog[t][k].err

\* the second fetch failed after a first page of two items, and yield
\* returned true for the error pair
C3_Witness ==
    /\ Len(fetchLog[1]) = 2
    /\ fetchLog[1][2].err # NoErr
    /\ Len(pushed[1]) = 3
    /\ pushed[1][3].ans
    /\ pc[1] = "done"

\* the last pair pushed by traversal t is the cancellation error, no item
LastPushIsCancellation(t) ==
    /\ Len(pushed'[t]) = Len(pushed[t]) + 1
    /\ pushed'[t][Len(pushed'[t])].item = NilItem
    /\ pushed'[t][Len(pushed'[t])].err = ErrCanceled
    /\ pc'[t] = "done"

\* a traversal that ended stays ended
DoneIsTerminal(t) ==
    pc[t] = "done" =>
        /\ pc'[t] = "done"
        /\ pushed'[t] = pushed[t]
        /\ fetchLog'[t] = fetchLog[t]

\* C4 as stated: whenever cancellation has been signalled and an item of
\* the fetched page is still undelivered, the next pair pushed is the
\* cancellation error and the traversal ends.
C4_CancelledAnyTime ==
    [][\A t \in active :
          (/\ cancelled[t]
           /\ pc[t] \in {"check", "yield"}
           /\ pushed'[t] # pushed[t]) => LastPushIsCancellation(t)]_vars

\* C4 amended: whenever cancellation has been signalled by the time the
\* cancellation test in front of the next undelivered item runs, the next
\* pair pushed is the cancellation error with no item, the traversal then
\* ends, and nothing more is delivered.
C4_CancelledAtCheck ==
    [][\A t \in active :
          /\ (/\ cancelled[t]
              /\ pc[t] = "check"
              /\ <<pc[t], pushed[t]>>' # <<pc[t], pushed[t]>>)
             => LastPushIsCancellation(t)
          /\ DoneIsTerminal(t)]_vars

\* cancelled after the first of three items of a page: the traversal ended
\* with the cancellation error, items 2 and 3 undelivered
C4_Witness ==
    /\ pc[1] = "done"
    /\ Len(page[1].Data) = 3
    /\ Len(pushed[1]) = 2
    /\ pushed[1][1].item = 1
    /\ pushed[1][2].err = ErrCanceled
    /\ idx[1] = 2

\* ------------------------------------------------------------------------
\* Properties of SearchPage (checked under SpecPage)
\* ------------------------------------------------------------------------

\* C5: the limit SearchPage sends is 100 for absent options or a requested
\* limit <= 0, 1000 for a requested limit > 1000 and the requested limit
\* otherwise; it is always in 1..1000, and a second call with the value the
\* first call normalized sends the same limit.
C5_LimitNormalized ==
    spOut.called =>
        LET sent == spOut.sent.Limit IN
        /\ (spIn.isNil \/ spIn.Limit <= 0) => sent = 100
        /\ (~spIn.isNil /\ spIn.Limit > 1000) => sent = 1000
        /\ (~spIn.isNil /\ spIn.Limit >= 1 /\ spIn.Limit <= 1000)
               => sent = spIn.Limit
        /\ sent \in 1..1000
        /\ (spCalls >= 2 /\ ~spIn.isNil) => sent = spIn.Limit

\* a requested limit of 5000 was sent as 1000
C5_Witness ==
    /\ spOut.called
    /\ spCalls = 1
    /\ spIn.Limit = 5000
    /\ spOut.sent.Limit = 1000

\* C6: SearchPage returns a page with a nil error or a nil page with an
\* error: a transport failure, an undecodable success body and any status
\* >= 400 give a nil page and an error; a status below 400 with a decodable
\* body gives the decoded page and no error.
C6_PageXorError ==
    spOut.called =>
        /\ \/ ~spOut.page.isNil /\ spOut.err = NoErr
           \/ spOut.page.isNil /\ spOut.err # NoErr
        /\ spResp.fail => spOut.page.isNil
        /\ (~spResp.fail /\ spResp.status < 400 /\ spResp.body = "text")
               => spOut.page.isNil
        /\ (~spResp.fail /\ spResp.status >= 400) => spOut.page.isNil
        /\ (~spResp.fail /\ spResp.status < 400 /\ spResp.body = "page")
               => spOut.page = spResp.page /\ spOut.err = NoErr

\* a 500 response whose body is a JSON page with items gave a nil page
C6_Witness ==
    /\ spOut.called
    /\ ~spResp.fail
    /\ spResp.status = 500
    /\ spResp.body = "page"
    /\ Len(spResp.page.Data) > 0
    /\ spOut.page.isNil
    /\ spOut.err # NoErr

\* the error type C7 gives for status code s
TypeOfStatus(s) ==
    IF s = 401 \/ s = 403 THEN "AuthenticationError"
    ELSE IF s = 404 THEN "NotFoundError"
    ELSE IF s = 400 THEN "ValidationError"
    ELSE IF s = 429 THEN "RateLimitError"
    ELSE IF s >= 500 THEN "ServerError"
    ELSE "APIError"

\* C7: for a response with status s >= 400 the error has the one type s
\* determines, whatever the body; it matches none of the other typed errors,
\* and it is matchable as an APIError.
C7_ErrorTypeByStatus ==
    (spOut.called /\ ~spResp.fail /\ spResp.status >= 400) =>
        /\ spOut.err.type = TypeOfStatus(spResp.status)
        /\ \A T \in TypedErrors :
               ErrorsAs(spOut.err, T) <=> T = TypeOfStatus(spResp.status)
        /\ ErrorsAs(spOut.err, "APIError")

\* a 403 whose JSON body claims status 404 gave an AuthenticationError
C7_Witness ==
    /\ spOut.called
    /\ ~spResp.fail
    /\ spResp.status = 403
    /\ spResp.body = "errjson"
    /\ spResp.bstatus = 404
    /\ spOut.err.type = "AuthenticationError"

\* ------------------------------------------------------------------------
\* Properties of the iterator helpers (checked under SpecIter)
\* ------------------------------------------------------------------------

\* index of the first error pair of seq, Len(seq) + 1 when it has none
FirstErrorAt(seq) ==
    IF \E i \in 1..Len(seq) : seq[i].err # NoErr
    THEN CHOOSE i \in 1..Len(seq) :
             /\ seq[i].err # NoErr
             /\ \A j \in 1..(i - 1) : seq[j].err = NoErr
    ELSE Len(seq) + 1

\* the items of the first k pairs of seq
ItemsUpTo(seq, k) == [i \in 1..k |-> seq[i].item]

\* C8: Collect returns the values of the pairs in front of the first error
\* pair, in order, with that error and without pulling anything after it;
\* with no error pair it returns all values and a nil error.
C8_CollectStopsAtFirstError ==
    itOut.op = "Collect" =>
        LET e == FirstErrorAt(itSeq) IN
        /\ itOut.items = ItemsUpTo(itSeq, e - 1)
        /\ IF e <= Len(itSeq)
           THEN itOut.err = itSeq[e].err /\ itOut.pulled = e
           ELSE itOut.err = NoErr /\ itOut.pulled = Len(itSeq)

\* Collect returned one value and the error of the second pair, leaving a
\* third pair unpulled
C8_Witness ==
    /\ itOut.op = "Collect"
    /\ Len(itSeq) = 3
    /\ itSeq[2].err # NoErr
    /\ Len(itOut.items) = 1
    /\ itOut.err = itSeq[2].err
    /\ itOut.pulled = 2

\* C9: CollectN(seq, n) returns at most n items and pulls at most n pairs,
\* for every n >= 0; an error pair met first is returned with the items
\* collected so far.
C9_AtMostN ==
    itOut.op = "CollectN" =>
        /\ Len(itOut.items) <= itN
        /\ itOut.pulled <= itN
        /\ (FirstErrorAt(itSeq) <= Len(itSeq) /\ FirstErrorAt(itSeq) <= itN)
               => /\ itOut.err = itSeq[FirstErrorAt(itSeq)].err
                  /\ itOut.items = ItemsUpTo(itSeq, FirstErrorAt(itSeq) - 1)

\* C10: First pulls at most one pair; it returns ErrEmptyIterator for a
\* sequence that pushes nothing, the error of the first pair when that is an
\* error pair, and the first value with a nil error otherwise.
C10_First ==
    itOut.op = "First" =>
        /\ itOut.pulled <= 1
        /\ Len(itSeq) = 0 =>
               /\ itOut.err = ErrEmptyIterator
               /\ itOut.pulled = 0
        /\ (Len(itSeq) >= 1 /\ itSeq[1].err # NoErr) =>
               itOut.err = itSeq[1].err
        /\ (Len(itSeq) >= 1 /\ itSeq[1].err = NoErr) =>
               /\ itOut.item = itSeq[1].item
               /\ itOut.err = NoErr
        /\ ~(Len(itSeq) = 0 /\ itOut.err = NoErr)

\* First was called on the empty sequence and returned ErrEmptyIterator
C10_Witness ==
    /\ itOut.op = "First"
    /\ Len(itSeq) = 0
    /\ itOut.err = ErrEmptyIterator

\* ------------------------------------------------------------------------
\* Properties of the combinators (checked under SpecChain)
\* ------------------------------------------------------------------------

\* the chain is the single combinator kind
ChainIs(kind) == Len(chStages) = 1 /\ chStages[1].kind = kind

\* what the final consumer has received, without its answers
Received == PairsOf(chSt.recv)

\* the number of values (pairs with a nil error) the consumer has received
ReceivedValues ==
    Cardinality({j \in 1..Len(chSt.recv) : chSt.recv[j].err = NoErr})

\* the consumer has answered true to every pair it received
ConsumerNeverStopped == \A j \in 1..Len(chSt.recv) : chSt.recv[j].ans

\* C11: for every source and every n >= 0 the consumer of Take(seq, n)
\* receives at most n items; over a source of values that is ranged over to
\* the end it receives the first min(n, length) values in order and the
\* source is asked for no more than those.
C11_TakeAtMostN ==
    ChainIs("Take") =>
        LET n == chStages[1].n
            m == Min(n, Len(chSrc))
        IN  /\ ReceivedValues <= n
            /\ (/\ chPc # "running"
                /\ ConsumerNeverStopped
                /\ FirstErrorAt(chSrc) > Len(chSrc))
                   => /\ Received = SubSeq(chSrc, 1, m)
                      /\ chPos = m

\* C12: when the source of Take(seq, n) pushes an error pair before n values
\* were forwarded, Take forwards that pair unchanged, once, and returns:
\* nothing is forwarded after it and the source is asked for nothing more,
\* whether the consumer answered true or false to the error.
C12_TakeForwardsErrorOnce ==
    ChainIs("Take") =>
        LET n == chStages[1].n
            e == FirstErrorAt(chSrc)
        IN  (e <= Len(chSrc) /\ e - 1 < n /\ chPos >= e)
                => /\ chPos = e
                   /\ chPc = "stopped"
                   /\ Len(chSt.recv) = e
                   /\ Received = SubSeq(chSrc, 1, e)

\* Take forwarded an error that came after a value, the consumer answered
\* true to it, and the source had more to push
C12_Witness ==
    /\ ChainIs("Take")
    /\ FirstErrorAt(chSrc) >= 2
    /\ FirstErrorAt(chSrc) < Len(chSrc)
    /\ chPos = FirstErrorAt(chSrc)
    /\ Len(chSt.recv) = chPos
    /\ chSt.recv[chPos].ans
    /\ chPc = "stopped"

\* C13: the consumer of Filter(seq, pred) receives exactly the values of the
\* source that satisfy pred, in order, up to the first error pair of the
\* source; that pair is forwarded as it is, whatever pred says of its item,
\* and Filter then asks the source for nothing more.
C13_Filter ==
    ChainIs("Filter") =>
        LET e == FirstErrorAt(chSrc)
            Kept(pair) == pair.err # NoErr \/ Pred(chStages[1].f, pair.item)
        IN  /\ chPos <= e
            /\ Received = SelectSeq(SubSeq(chSrc, 1, chPos), Kept)
            /\ (chPos = e /\ e <= Len(chSrc)) => chPc = "stopped"

\* Filter dropped a value, then forwarded an error pair whose item does not
\* satisfy the predicate; the consumer answered true and the source had
\* more to push
C13_Witness ==
    /\ ChainIs("Filter")
    /\ chStages[1].f = "even"
    /\ FirstErrorAt(chSrc) < Len(chSrc)
    /\ chPos = FirstErrorAt(chSrc)
    /\ chSrc[chPos] = SeqPair(1, ErrOther)
    /\ Len(chSt.recv) >= 1
    /\ Len(chSt.recv) < chPos
    /\ chSt.recv[Len(chSt.recv)] = Pair(1, ErrOther, TRUE)
    /\ chPc = "stopped"

\* C14: the consumer of Map(seq, fn) receives fn(v) for every value v of the
\* source, one output per input and in order, up to the first error pair of
\* the source; for that pair it receives the error with the zero item, fn
\* is not applied, and Map then asks the source for nothing more.
C14_Map ==
    ChainIs("Map") =>
        LET e == FirstErrorAt(chSrc) IN
        /\ chPos <= e
        /\ Received =
              [j \in 1..chPos |->
                  IF chSrc[j].err = NoErr
                  THEN SeqPair(Apply(chStages[1].f, chSrc[j].item), NoErr)
                  ELSE SeqPair(NilItem, chSrc[j].err)]
        /\ (chPos = e /\ e <= Len(chSrc)) => chPc = "stopped"

\* Map forwarded a mapped value, then an error that came with a non-zero
\* item, as the zero item; the consumer answered true and the source had
\* more to push
C14_Witness ==
    /\ ChainIs("Map")
    /\ FirstErrorAt(chSrc) >= 2
    /\ FirstErrorAt(chSrc) < Len(chSrc)
    /\ chPos = FirstErrorAt(chSrc)
    /\ chSrc[chPos] = SeqPair(1, ErrOther)
    /\ chSt.recv[chPos] = Pair(NilItem, ErrOther, TRUE)
    /\ chPc = "stopped"

\* the values of seq that satisfy pred, each mapped by fn
RECURSIVE MapFilter(_, _, _)
MapFilter(seq, pred, fn) ==
    IF seq = << >>
    THEN << >>
    ELSE (IF Pred(pred, Head(seq).item)
          THEN <<Apply(fn, Head(seq).item)>>
          ELSE << >>) \o MapFilter(Tail(seq), pred, fn)

\* C15: for a finite source s of values, a predicate p, a function f and
\* n >= 1, Collect(Take(Map(Filter(s, p), f), n)) returns the first n
\* elements of (map f (filter p s)) with a nil error; over 1..10 with
\* "even", "double" and n = 3 that is [4, 8, 12].
C15_Composition ==
    (chStages \in Compositions /\ chCons = CollectConsumer
        /\ chPc # "running")
        => LET r   == Collect(Received)
               all == MapFilter(chSrc, chStages[1].f, chStages[2].f)
           IN  /\ r.err = NoErr
               /\ r.items = SubSeq(all, 1, Min(chStages[3].n, Len(all)))
               /\ (/\ chSrc = OneToTen
                   /\ chStages = <<FilterStage("even"), MapStage("double"),
                                   TakeStage(3)>>)
                      => r.items = <<4, 8, 12>>

\* the composition of the test has been collected: Take returned after its
\* third item, at the sixth pair of the source
C15_Witness ==
    /\ chSrc = OneToTen
    /\ chStages = <<FilterStage("even"), MapStage("double"), TakeStage(3)>>
    /\ chCons = CollectConsumer
    /\ chPc = "stopped"
    /\ chPos = 6
    /\ Collect(Received).items = <<4, 8, 12>>

\* ------------------------------------------------------------------------
\* Properties of the combinators around Search (checked under
\* SpecSearchChain)
\* ------------------------------------------------------------------------

\* the final consumer has stopped pulling: it answered false to the last
\* pair it received (its count is reached, it took its first pair, or it
\* received an error)
ConsumerStopped ==
    /\ Len(chSt.recv) > 0
    /\ ~chSt.recv[Len(chSt.recv)].ans

\* the first page fetch succeeded with a page that is not empty
FirstPageNonEmpty(log) ==
    /\ Len(log) >= 1
    /\ log[1].err = NoErr
    /\ Len(log[1].page.Data) > 0

\* C16: for every chain of Take, Filter and Map around Search that Collect,
\* CollectN or First consumes: the step in which the final consumer stops
\* ends the traversal, and from then on Search fetches no page and pushes
\* no pair; First directly over a Search whose first page is not empty has
\* issued exactly one fetch when it returns.
C16_StopReachesSearch ==
    [][/\ ConsumerStopped =>
              /\ fetchLog' = fetchLog
              /\ pushed' = pushed
       /\ ConsumerStopped' => pc'[ChainTrav] = "done"
       /\ (/\ chStages = << >>
           /\ chCons = FirstConsumer
           /\ pc'[ChainTrav] = "done"
           /\ FirstPageNonEmpty(fetchLog'[ChainTrav]))
              => Len(fetchLog'[ChainTrav]) = 1]_vars

\* CollectN reached its count through a chain of two combinators while the
\* server had more pages: the traversal is over after one fetch
C16_Witness ==
    /\ Len(chStages) >= 2
    /\ chCons.kind = "CollectN"
    /\ ConsumerStopped
    /\ chSt.recv[Len(chSt.recv)].err = NoErr
    /\ pc[ChainTrav] = "done"
    /\ Len(fetchLog[ChainTrav]) = 1
    /\ HasMore(page[ChainTrav])

\* ------------------------------------------------------------------------
\* Properties of interleaved traversals (checked under SpecConcurrent)
\* ------------------------------------------------------------------------

\* the history of traversal t is one that a traversal running alone against
\* this server produces: offsets start at 0 and advance by the length of the
\* page before; every page is the server's page for its request; only the
\* last fetch may have failed; the values pushed are the items of the pages
\* in order; only the last pair pushed may be an error or have been
\* answered false
SoloHistory(t) ==
    LET log  == fetchLog[t]
        ps   == pushed[t]
        vals == SelectSeq(ps, LAMBDA x : x.err = NoErr)
        all  == PagesItems(log, Len(log))
    IN  /\ \A k \in 1..Len(log) :
              /\ log[k].req.Limit = defaultPageSize
              /\ log[k].req.Offset =
                     IF k = 1 THEN 0
                     ELSE log[k - 1].req.Offset + Len(log[k - 1].page.Data)
              /\ log[k].err = NoErr => log[k].page = ServerPage(log[k].req)
              /\ k < Len(log) => log[k].err = NoErr
        /\ Len(vals) <= Len(all)
        /\ \A j \in 1..Len(vals) : vals[j].item = all[j]
        /\ \A j \in 1..(Len(ps) - 1) : ps[j].err = NoErr /\ ps[j].ans

\* the variables of traversal t
Local(t) ==
    <<pc[t], offset[t], page[t], idx[t], cancelled[t], pushed[t],
      fetchLog[t]>>

\* C17: with two traversals of one client interleaved in any order, every
\* step changes the state of one traversal only, and each traversal requests
\* the offsets and delivers the items and error of a traversal run alone.
C17_TraversalsIndependent ==
    [][/\ \A t \in Trav : SoloHistory(t)'
       /\ \A t, u \in Trav :
              (t # u /\ Local(t)' # Local(t)) => Local(u)' = Local(u)]_vars

\* traversal 1 was stopped by its caller before the second page while
\* traversal 2 went on into it
C17_Witness ==
    /\ active = Trav
    /\ pc[1] = "done"
    /\ Len(fetchLog[1]) = 1
    /\ Len(pushed[1]) >= 1
    /\ ~pushed[1][Len(pushed[1])].ans
    /\ Len(fetchLog[2]) = 2
    /\ offset[2] > offset[1]
    /\ Len(pushed[2]) > Len(pushed[1])
    /\ pushed[2][Len(pushed[2])].err = NoErr

\* ------------------------------------------------------------------------
\* Properties of the incident operations (checked under SpecOps)
\* ------------------------------------------------------------------------

\* the call made has an argument that validation rejects
InvalidArguments ==
    \/ opIn.op \in {"Get", "Update", "Close", "Delete"} /\ opIn.id = ""
    \/ opIn.op = "Create" /\
          (opIn.req.isNil \/ opIn.req.Name = "" \/ opIn.req.Type = "")

\* C18: Get, Update, Close and Delete with an empty incident ID, and Create
\* with a nil request, an empty name or an empty type, return a
\* ValidationError, and no request has been built or sent.
C18_ValidationBeforeRequest ==
    InvalidArguments =>
        /\ ErrorsAs(opOut.err, "ValidationError")
        /\ httpLog = << >>

\* Update was called with an empty ID and a nil request, with request
\* options: it returned the validation error and sent nothing
C18_Witness ==
    /\ opOut.op = "Update"
    /\ opIn.id = ""
    /\ opIn.reqIsNil
    /\ Len(opIn.opts) = MaxRequestOpts
    /\ opOut.err = ErrValidation
    /\ httpLog = << >>

\* C19: every request the client has built, for every operation and every
\* list of request options, has the header x-xdr-auth-id equal to the
\* configured key ID and the header Authorization equal to the configured
\* API key.
C19_AuthHeadersOnEveryRequest ==
    \A i \in 1..Len(httpLog) :
        /\ HeaderGet(httpLog[i].Header, "x-xdr-auth-id") = ncOut.client.KeyID
        /\ HeaderGet(httpLog[i].Header, "Authorization") = ncOut.client.APIKey

\* ------------------------------------------------------------------------
\* Properties of NewClient (checked under SpecNewClient)
\* ------------------------------------------------------------------------

\* the last option of a kind in opts is at place i
LastOfKind(opts, kind, i) ==
    /\ opts[i].kind = kind
    /\ \A j \in (i + 1)..Len(opts) : opts[j].kind # kind

HasKind(opts, kind) == \E i \in 1..Len(opts) : opts[i].kind = kind

\* the base URL and the credentials that result from the options, a later
\* option overriding an earlier one of the same kind
ResultingBaseURL(opts) ==
    IF HasKind(opts, "WithBaseURL")
    THEN opts[CHOOSE i \in 1..Len(opts) :
                  LastOfKind(opts, "WithBaseURL", i)].url
    ELSE << >>

ResultingKeyID(opts) ==
    IF HasKind(opts, "WithAPIKey")
    THEN opts[CHOOSE i \in 1..Len(opts) :
                  LastOfKind(opts, "WithAPIKey", i)].keyID
    ELSE ""

ResultingAPIKey(opts) ==
    IF HasKind(opts, "WithAPIKey")
    THEN opts[CHOOSE i \in 1..Len(opts) :
                  LastOfKind(opts, "WithAPIKey", i)].apiKey
    ELSE ""

\* NewClient returned an error and no client
Failed(err) == ncOut.err = err /\ ncOut.client.isNil

\* NewClient returned no error and a client with Incidents set whose
\* BaseURL() is url
Built(url) ==
    /\ ncOut.err = NoErr
    /\ ~ncOut.client.isNil
    /\ ncOut.client.Incidents
    /\ BaseURL(ncOut.client) = url

\* C20 as stated: NewClient returns ErrNoBaseURL when the resulting base URL
\* is empty, otherwise ErrNoCredentials when the resulting key ID or API key
\* is empty, and otherwise a client whose Incidents service is set and whose
\* BaseURL equals the configured URL; never a client and an error.
C20_NewClientAsStated ==
    ncOut.called =>
        LET u == ResultingBaseURL(ncOpts) IN
        /\ ~(~ncOut.client.isNil /\ ncOut.err # NoErr)
        /\ IF u = << >>
           THEN Failed(ErrNoBaseURL)
           ELSE IF ResultingKeyID(ncOpts) = "" \/ ResultingAPIKey(ncOpts) = ""
           THEN Failed(ErrNoCredentials)
           ELSE Built(u)

\* C20 amended: as stated, except that a base URL which does not parse once
\* one trailing "/" is removed gives an "invalid base URL" error and no
\* client, and that the BaseURL of the client is the configured URL with one
\* trailing "/" removed.
C20_NewClient ==
    ncOut.called =>
        LET u == ResultingBaseURL(ncOpts) IN
        /\ ~(~ncOut.client.isNil /\ ncOut.err # NoErr)
        /\ IF u = << >>
           THEN Failed(ErrNoBaseURL)
           ELSE IF ResultingKeyID(ncOpts) = "" \/ ResultingAPIKey(ncOpts) = ""
           THEN Failed(ErrNoCredentials)
           ELSE IF ~urlParse(TrimSuffixSlash(u)).ok
           THEN Failed(ErrInvalidBaseURL)
           ELSE Built(TrimSuffixSlash(u))

\* NewClient was given two base URLs and credentials; the later URL, which
\* ends in "/", won, and the client reports it without the "/"
C20_Witness ==
    /\ ncOut.called
    /\ Len(ncOpts) = 3
    /\ ncOpts[1] = WithBaseURL(<<BadHost>>)
    /\ ncOpts[2].kind = "WithAPIKey"
    /\ ncOpts[3] = WithBaseURL(<<GoodHost, "/">>)
    /\ Built(<<GoodHost>>)

\* the pairs traversal t pushed are exactly the given items, every one
\* accepted by the consumer
DeliveredExactly(t, its) ==
    /\ Len(pushed[t]) = Len(its)
    /\ \A i \in 1..Len(its) :
           /\ pushed[t][i].item = its[i]
           /\ pushed[t][i].err = NoErr
           /\ pushed[t][i].ans

\* the fetched pages of traversal t all of whose items were pushed and
\* accepted
DeliveredPages(t) ==
    {k \in 1..Len(fetchLog[t]) :
        /\ fetchLog[t][k].err = NoErr
        /\ Len(PagesItems(fetchLog[t], k)) <= Len(pushed[t])
        /\ \A i \in 1..Len(PagesItems(fetchLog[t], k)) :
               pushed[t][i].err = NoErr /\ pushed[t][i].ans}

\* C21: a page fetch is issued only when every item of every page fetched
\* before has been pushed to the consumer and accepted, so that the fetches
\* issued never exceed one plus the fully delivered pages.
C21_NoPrefetch ==
    [][\A t \in active :
          Len(fetchLog'[t]) > Len(fetchLog[t]) =>
              /\ DeliveredExactly(t,
                     PagesItems(fetchLog[t], Len(fetchLog[t])))
              /\ Len(fetchLog[t]) = Cardinality(DeliveredPages(t))
              /\ Len(fetchLog'[t]) = 1 + Cardinality(DeliveredPages(t))]_vars

\* a second page was fetched after a first page of two items or more
C21_Witness ==
    /\ Len(fetchLog[1]) = 2
    /\ fetchLog[1][1].err = NoErr
    /\ Len(fetchLog[1][1].page.Data) >= 2
    /\ fetchLog[1][2].err = NoErr
    /\ Len(fetchLog[1][2].page.Data) >= 1

\* C22: the first fetch of a traversal is requested at offset 0 and each
\* later fetch at the offset requested for the preceding fetch plus the
\* number of items of the preceding page, for every page the server may
\* return.
C22_OffsetAdvancesByItems ==
    \A t \in active :
        \A k \in 1..Len(fetchLog[t]) :
            fetchLog[t][k].req.Offset =
                IF k = 1 THEN 0
                ELSE fetchLog[t][k - 1].req.Offset
                         + Len(fetchLog[t][k - 1].page.Data)

\* C26: within one traversal every fetch after the first is requested at an
\* offset strictly greater than the offset of the preceding fetch, whatever
\* item counts, totals and offsets the pages of the server carry, so that no
\* offset is fetched twice.
C26_OffsetsStrictlyIncrease ==
    \A t \in active :
        \A k \in 2..Len(fetchLog[t]) :
            fetchLog[t][k].req.Offset > fetchLog[t][k - 1].req.Offset

\* C23: for every n >= 1, Take(seq, n) asks its source for at most n pairs;
\* when the source pushes n values and only then an error, the consumer never
\* receives that error, and a consumer that does not stop by itself has
\* received the n values when Take returns after the n-th.
C23_TakePullsAtMostN ==
    (ChainIs("Take") /\ chStages[1].n >= 1) =>
        LET n == chStages[1].n IN
        /\ chPos <= n
        /\ (FirstErrorAt(chSrc) = n + 1 /\ n + 1 <= Len(chSrc)) =>
               /\ \A j \in 1..Len(chSt.recv) : chSt.recv[j].err = NoErr
               /\ (chPc # "running" /\ ConsumerNeverStopped) =>
                      /\ chPc = "stopped"
                      /\ chPos = n
                      /\ Received = SubSeq(chSrc, 1, n)

\* Take(seq, 2) returned after the second value of a source whose third pair
\* is an error, the consumer having accepted both values
C23_Witness ==
    /\ ChainIs("Take")
    /\ chStages[1].n = 2
    /\ Len(chSrc) = 3
    /\ FirstErrorAt(chSrc) = 3
    /\ chPos = 2
    /\ chPc = "stopped"
    /\ Len(chSt.recv) = 2
    /\ ConsumerNeverStopped

\* C24: a sequence returned by Search is one-shot: once it has been ranged
\* over, fully or with an early stop, ranging over the same value again does
\* not start a new traversal from offset 0, so that after the first fetch of
\* the sequence no fetch is requested at offset 0.
C24_OneShot ==
    \A t \in active :
        \A k \in 2..Len(fetchLog[t]) : fetchLog[t][k].req.Offset # 0

\* the first page fetch of traversal t succeeded with this many items of
\* this total
FirstPage(t, items, total) ==
    /\ Len(fetchLog[t]) >= 1
    /\ fetchLog[t][1].err = NoErr
    /\ Len(fetchLog[t][1].page.Data) = items
    /\ fetchLog[t][1].page.Total = total

\* C25: when the first fetched page has no items and reports total 0, Search
\* pushes no pair, neither an item nor an error, issues no second fetch and
\* ends, so that Collect returns an empty list and a nil error.
C25_EmptyResult ==
    \A t \in active :
        FirstPage(t, 0, 0) =>
            /\ pushed[t] = << >>
            /\ Len(fetchLog[t]) = 1
            /\ pc[t] = "done"
            /\ Collect(PairsOf(pushed[t])).items = << >>
            /\ Collect(PairsOf(pushed[t])).err = NoErr

\* the only page fetch returned an empty page of total 0, and the context
\* was cancelled after the traversal had ended
C25_Witness ==
    /\ FirstPage(1, 0, 0)
    /\ srvItems = 0
    /\ pc[1] = "done"
    /\ cancelled[1]

\* the consumer of traversal t accepted every pair, no fetch failed and the
\* context was not cancelled
UndisturbedSoFar(t) ==
    /\ ~cancelled[t]
    /\ NoFetchFailed(t)
    /\ \A i \in 1..Len(pushed[t]) : pushed[t][i].ans

\* C27: against a server whose total is fixed, whose pages report the offset
\* requested and hold at least one item below the total, a traversal whose
\* consumer accepts every item and whose fetches all return eventually ends,
\* after at most one fetch per item (one fetch when there is none), without
\* having pushed an error.
C27_Terminates ==
    /\ <>(pc[1] = "done")
    /\ [](Len(fetchLog[1]) <= Max(srvItems, 1))
    /\ [](UndisturbedSoFar(1) =>
              \A i \in 1..Len(pushed[1]) : pushed[1][i].err = NoErr)

\* the traversal ended after several fetches, every item accepted and no
\* error pushed
C27_Witness ==
    /\ pc[1] = "done"
    /\ UndisturbedSoFar(1)
    /\ Len(fetchLog[1]) >= 3
    /\ Len(pushed[1]) = srvItems

\* the consumer of traversal t has accepted the last item of a page with
\* Offset + len(Data) >= Total, and nothing was pushed since
AcceptedLastOfFinalPage(t) ==
    /\ ~page[t].isNil
    /\ Len(page[t].Data) >= 1
    /\ idx[t] = Len(page[t].Data)
    /\ page[t].Offset + Len(page[t].Data) >= page[t].Total
    /\ Len(pushed[t]) >= 1
    /\ pushed[t][Len(pushed[t])] = Pair(page[t].Data[idx[t]], NoErr, TRUE)

\* C28: once the consumer has accepted the last item of a page with
\* Offset + len(Data) >= Total the traversal has ended, and a cancellation
\* signalled from then on changes nothing: no cancellation error pair is
\* pushed and no further fetch is issued.
C28_CancelAfterLastItem ==
    [][\A t \in active :
          AcceptedLastOfFinalPage(t) =>
              /\ pc[t] = "done"
              /\ pc'[t] = "done"
              /\ pushed'[t] = pushed[t]
              /\ fetchLog'[t] = fetchLog[t]]_vars

\* the context was cancelled after the last item of the second, final page
\* had been accepted
C28_Witness ==
    /\ AcceptedLastOfFinalPage(1)
    /\ Len(fetchLog[1]) = 2
    /\ pc[1] = "done"
    /\ cancelled[1]

C30_CollectTakeIsCollectN ==
    itOut.op = "CollectTake" =>
        LET r == CollectN(itSeq, itN) IN
        /\ itOut.items = r.items
        /\ itOut.err = r.err
        /\ itOut.pulled = r.pulled

\* Collect(Take(seq, 0)) over a sequence of two pairs or more returned the
\* first value, as CollectN(seq, 0) does, after pulling one pair
C30_Witness ==
    /\ itOut.op = "CollectTake"
    /\ itN = 0
    /\ Len(itSeq) >= 2
    /\ itOut.items = <<itSeq[1].item>>
    /\ itOut.err = NoErr
    /\ itOut.pulled = 1

====
